---- MODULE Spec2Model ----
(***************************************************************************)
(* Model of the asynchronous media processing pipeline:                    *)
(*   - the in-memory job queue      (processingQueue.service.js)           *)
(*   - the transcode pipeline       (videoProcessing.service.js)           *)
(*   - the delayed 'ready' promotion (setTimeout in processVideo)          *)
(*   - the record store and the files on disk, with the video controller's *)
(*     upload, delete and update handlers as the other writers.            *)
(*                                                                         *)
(* Node runs one callback at a time, so everything between two awaits is   *)
(* one atomic action.  Each await on the record store or on the external   *)
(* engine is one action: the operation takes effect and the continuation   *)
(* runs up to the next await.                                              *)
(***************************************************************************)
EXTENDS Integers, Sequences, FiniteSets, TLC

\* Number of uploads considered (video ids are 1..MaxVideos, in upload order).
MaxVideos == 3

\* Number of deleteVideo requests considered.
MaxDeletes == 1

\* Number of updateVideo requests considered.
MaxUpdates == 1

\* Number of frames a scan is followed with.
MaxFrames == 2

VideoIds == 1..MaxVideos

\* currentVideoId = null
Null == 0

\* videoSchema.status enum
Statuses == {"uploaded", "processing", "safe", "flagged", "ready", "failed"}

\* videoSchema.sensitivityLevel enum
Levels == {"low", "medium", "high"}

RECURSIVE Factorial(_)
Factorial(n) == IF n <= 1 THEN 1 ELSE n * Factorial(n - 1)

\* Scores, brightness and skin-tone values are the scorer's numbers in 0..1,
\* held as multiples of 1/One.  One is chosen so that every product by 0.3
\* or 0.7 and every division by a frame count up to MaxFrames is exact.
One == 10000 * Factorial(MaxFrames)

\* h/100 as a multiple of 1/One.
Hundredths(h) == h * (One \div 100)

\* THRESHOLDS.BRIGHTNESS.MIN
BRIGHTNESS_MIN == Hundredths(20)

\* THRESHOLDS.BRIGHTNESS.MAX
BRIGHTNESS_MAX == Hundredths(90)

\* THRESHOLDS.FLAG_THRESHOLD
FLAG_THRESHOLD == Hundredths(60)

\* Overall sensitivity scores the scorer may return.
ScoreSamples == {Hundredths(h) : h \in {0, 50, 60, 61, 80, 81, 100}}

\* A start of a job is recorded only while the log is shorter than this;
\* the code starts each entry once, so the cap is never reached.
StartCap == 2 * MaxVideos

VARIABLES
    store,            \* the Video collection: id -> document
    files,            \* the disk: id -> which of the video's files exist
    processingQueue,  \* const processingQueue = []
    isProcessing,     \* let isProcessing = false
    currentVideoId,   \* let currentVideoId = null
    immediates,       \* number of pending setImmediate(() => processNext())
    job,              \* id -> position and locals of the processNext/processVideo run
    promo,            \* id -> position of the delayed promotion (setTimeout callback)
    del,              \* id -> position of the deleteVideo handler
    nextVideoId,      \* id the next upload gets
    updates,          \* number of updateVideo requests served
    started,          \* log: ids in the order processVideo was invoked
    progressRun,      \* one processVideo run seen through its progressCallback
    scan,             \* one processSensitivityCheck call
    stream,           \* one streamVideo request
    notify,           \* one job's events as processNext emits them
    upload,           \* the uploadVideo requests, step by step
    login,            \* one login request
    transcode,        \* one transcodeVideo call up to its scale filter
    sockets,          \* the push-channel connections and their rooms
    readyEmit,        \* id -> the delayed 'ready' emit of processNext
    queueStatus       \* the last value getQueueStatus returned

\* The queue, the store and the disk.
queueVars == <<store, files, processingQueue, isProcessing, currentVideoId,
               immediates, job, promo, del, nextVideoId, updates, started>>

\* The single calls that are followed on their own.
lateCalls == <<transcode, sockets, readyEmit, queueStatus>>

moreCalls == <<notify, upload, login, lateCalls>>

callVars == <<progressRun, scan, stream, moreCalls>>

vars == <<queueVars, callVars>>

\* No call of the kind is being followed.
NoCall == [pc |-> "none"]

\* A document that is not in the collection (findById returns null).
NoRecord ==
    [exists |-> FALSE, status |-> "none", processedFilePath |-> FALSE,
     thumbnailPath |-> FALSE, processingProgress |-> 0, sensitivityLevel |-> "low"]

\* Video.create(videoData) in uploadVideo, with the schema defaults.
NewRecord ==
    [exists |-> TRUE, status |-> "uploaded", processedFilePath |-> FALSE,
     thumbnailPath |-> FALSE, processingProgress |-> 0, sensitivityLevel |-> "low"]

NoFiles == [original |-> FALSE, processed |-> FALSE, thumbnail |-> FALSE]

NewJob ==
    [pc |-> "idle", flagged |-> FALSE, level |-> "low", stageError |-> "none"]

\* Positions in which a processNext invocation holds a job.
RunningPcs ==
    {"pn_find", "pv_find", "pv_save1", "pv_transcode", "pv_thumbnail",
     "pv_metadata", "pv_save2", "pv_sensitivity", "pv_save3",
     "pv_catch_find", "pv_catch_save", "pv_cleanup", "pn_catch_find"}

\* Positions inside processVideo itself.
PipelinePcs == RunningPcs \ {"pn_find", "pn_catch_find"}

\* The module state of processingQueue.service.js after load, an empty
\* collection and an empty upload directory.
QueueInit ==
    /\ store = [v \in VideoIds |-> NoRecord]
    /\ files = [v \in VideoIds |-> NoFiles]
    /\ processingQueue = <<>>
    /\ isProcessing = FALSE
    /\ currentVideoId = Null
    /\ immediates = 0
    /\ job = [v \in VideoIds |-> NewJob]
    /\ promo = [v \in VideoIds |-> "none"]
    /\ del = [v \in VideoIds |-> "none"]
    /\ nextVideoId = 1
    /\ updates = 0
    /\ started = <<>>

\* No transcode call, connection, ready emit or status call is being
\* followed.
NoLateCalls ==
    /\ transcode = NoCall
    /\ sockets = NoCall
    /\ readyEmit = NoCall
    /\ queueStatus = NoCall

\* No event log, upload request or login request is being followed.
NoMoreCalls ==
    /\ notify = NoCall
    /\ upload = NoCall
    /\ login = NoCall
    /\ NoLateCalls

Init ==
    /\ QueueInit
    /\ NoMoreCalls
    /\ progressRun = NoCall
    /\ scan = NoCall
    /\ stream = NoCall

(***************************************************************************)
(* Job queue                                                               *)
(***************************************************************************)

Push_Front(q, v) == <<v>> \o q

\* processingQueue.push({ videoId, io })
Push(q, v) == Append(q, v)

Shift_DropTwo(q) ==
    [entry |-> Head(q), rest |-> IF Len(q) >= 2 THEN Tail(Tail(q)) ELSE Tail(q)]

Shift_Peek(q) == [entry |-> Head(q), rest |-> q]

\* const { videoId, io } = processingQueue.shift()
Shift(q) == [entry |-> Head(q), rest |-> Tail(q)]

ProcessNextBlocked_NoBusyCheck(busy, q) == Len(q) = 0

\* if (isProcessing || processingQueue.length === 0) return;
ProcessNextBlocked(busy, q) == busy \/ Len(q) = 0

BusyAfterJob_StuckOnFailure(failed) == failed

\* finally { isProcessing = false; ... } on both the success and the failure path
BusyAfterJob(failed) == FALSE

ScheduleAdvance_Never(q) == FALSE

\* if (processingQueue.length > 0) setImmediate(() => processNext())
ScheduleAdvance(q) == Len(q) > 0

\* processNext() up to its first await, on queue q and job table j:
\* either returns at once or takes the head entry and becomes busy.
ProcessNext(q, j) ==
    IF ProcessNextBlocked(isProcessing, q)
    THEN /\ processingQueue' = q
         /\ job' = j
         /\ UNCHANGED <<isProcessing, currentVideoId>>
    ELSE LET s == Shift(q) IN
         /\ isProcessing' = TRUE
         /\ processingQueue' = s.rest
         /\ currentVideoId' = s.entry
         /\ job' = [j EXCEPT ![s.entry] = [NewJob EXCEPT !.pc = "pn_find"]]

Finally_KeepCurrent(j, failed) ==
    /\ isProcessing' = BusyAfterJob(failed)
    /\ UNCHANGED currentVideoId
    /\ immediates' = immediates + (IF ScheduleAdvance(processingQueue) THEN 1 ELSE 0)
    /\ job' = j
    /\ UNCHANGED processingQueue

\* The finally block of processNext; j is the job table after the job ended.
Finally(j, failed) ==
    /\ isProcessing' = BusyAfterJob(failed)
    /\ currentVideoId' = Null
    /\ immediates' = immediates + (IF ScheduleAdvance(processingQueue) THEN 1 ELSE 0)
    /\ job' = j
    /\ UNCHANGED processingQueue

addToQueue_Twice(v) ==
    LET q == Push(Push(processingQueue, v), v)
        j == [job EXCEPT ![v].pc = "queued"]
    IN  IF ~isProcessing
        THEN ProcessNext(q, j)
        ELSE /\ processingQueue' = q
             /\ job' = j
             /\ UNCHANGED <<isProcessing, currentVideoId>>

\* addToQueue(videoId, io): push, then processNext() when no job is running.
addToQueue(v) ==
    LET q == Push(processingQueue, v)
        j == [job EXCEPT ![v].pc = "queued"]
    IN  IF ~isProcessing
        THEN ProcessNext(q, j)
        ELSE /\ processingQueue' = q
             /\ job' = j
             /\ UNCHANGED <<isProcessing, currentVideoId>>

\* uploadVideo: the record and the original file are created and the new id
\* is handed to addToQueue, which starts the worker when it is idle.
UploadVideo ==
    /\ nextVideoId <= MaxVideos
    /\ LET v == nextVideoId IN
         /\ store' = [store EXCEPT ![v] = NewRecord]
         /\ files' = [files EXCEPT ![v].original = TRUE]
         /\ nextVideoId' = v + 1
         /\ addToQueue(v)
    /\ UNCHANGED <<immediates, promo, del, updates, started>>
    /\ UNCHANGED callVars

\* A pending setImmediate callback runs processNext().
ProcessNextImmediate ==
    /\ immediates > 0
    /\ immediates' = immediates - 1
    /\ ProcessNext(processingQueue, job)
    /\ UNCHANGED <<store, files, promo, del, nextVideoId, updates, started>>
    /\ UNCHANGED callVars

\* processNext: Video.findById resolves, the initial events are emitted and
\* processVideo is invoked; it runs up to its own findById.
PN_FindVideo(v) ==
    /\ job[v].pc = "pn_find"
    /\ Len(started) < StartCap
    /\ job' = [job EXCEPT ![v].pc = "pv_find"]
    /\ started' = Append(started, v)
    /\ UNCHANGED <<store, files, processingQueue, isProcessing, currentVideoId,
                   immediates, promo, del, nextVideoId, updates>>
    /\ UNCHANGED callVars

(***************************************************************************)
(* Transcode pipeline (processVideo)                                       *)
(***************************************************************************)

Flagged_Low(score) == score > Hundredths(40)

\* const flagged = score > THRESHOLDS.FLAG_THRESHOLD  (0.6)
Flagged(score) == score > FLAG_THRESHOLD

Level_FlagThreshold(score) ==
    IF score > Hundredths(80) THEN "high"
    ELSE IF score > FLAG_THRESHOLD THEN "medium"
    ELSE "low"

\* let level = 'low'; if (score > 0.8) 'high' else if (score > 0.5) 'medium'
Level(score) ==
    IF score > Hundredths(80) THEN "high"
    ELSE IF score > Hundredths(50) THEN "medium"
    ELSE "low"

FinalStatus_Ready(flagged) == "ready"

\* if (sensitivityResult.flagged) video.status = 'flagged' else 'safe'
FinalStatus(flagged) == IF flagged THEN "flagged" ELSE "safe"

PromotionGuard_SafeOnly(status) == status = "safe"

\* updatedVideo.status === 'safe' || updatedVideo.status === 'flagged'
PromotionGuard(status) == status \in {"safe", "flagged"}

\* A throw inside the try block of processVideo: control moves to the catch
\* handler, which starts with Video.findById.
Throw(v, stage) ==
    job' = [job EXCEPT ![v].pc = "pv_catch_find", ![v].stageError = stage]

PipelineFrame == <<processingQueue, isProcessing, currentVideoId, immediates,
                   promo, del, nextVideoId, updates, started, callVars>>

\* Video.findById resolves; missing record or missing original file throws,
\* otherwise status/progress are set on the document and save() is issued.
PV_FindVideo(v) ==
    /\ job[v].pc = "pv_find"
    /\ IF ~store[v].exists \/ ~files[v].original
       THEN Throw(v, "init")
       ELSE job' = [job EXCEPT ![v].pc = "pv_save1"]
    /\ UNCHANGED <<store, files>>
    /\ UNCHANGED PipelineFrame

\* video.save() of status 'processing' (only the modified path is written);
\* it rejects when the document is gone.  Then the transcode is started.
PV_SaveProcessing(v) ==
    /\ job[v].pc = "pv_save1"
    /\ IF store[v].exists
       THEN /\ store' = [store EXCEPT ![v].status = "processing"]
            /\ job' = [job EXCEPT ![v].pc = "pv_transcode"]
       ELSE /\ Throw(v, "init")
            /\ UNCHANGED store
    /\ UNCHANGED files
    /\ UNCHANGED PipelineFrame

\* transcodeVideo settles: the engine either writes the derivative or fails
\* (ffprobe on a missing input always fails; a failed encode may leave a
\* partial output file behind).
PV_Transcode(v) ==
    /\ job[v].pc = "pv_transcode"
    /\ \/ /\ files[v].original
          /\ files' = [files EXCEPT ![v].processed = TRUE]
          /\ job' = [job EXCEPT ![v].pc = "pv_thumbnail"]
       \/ /\ \E partial \in BOOLEAN :
                files' = [files EXCEPT ![v].processed =
                              files[v].original /\ partial]
          /\ Throw(v, "transcode")
    /\ UNCHANGED store
    /\ UNCHANGED PipelineFrame

\* generateThumbnail settles.
PV_Thumbnail(v) ==
    /\ job[v].pc = "pv_thumbnail"
    /\ \/ /\ files[v].processed
          /\ files' = [files EXCEPT ![v].thumbnail = TRUE]
          /\ job' = [job EXCEPT ![v].pc = "pv_metadata"]
       \/ /\ Throw(v, "thumbnail")
          /\ UNCHANGED files
    /\ UNCHANGED store
    /\ UNCHANGED PipelineFrame

\* getVideoMetadata settles; on success video.duration is set and save() issued.
PV_Metadata(v) ==
    /\ job[v].pc = "pv_metadata"
    /\ \/ /\ files[v].processed
          /\ job' = [job EXCEPT ![v].pc = "pv_save2"]
       \/ Throw(v, "metadata")
    /\ UNCHANGED <<store, files>>
    /\ UNCHANGED PipelineFrame

\* video.save() of the duration; then processSensitivityCheck is started.
PV_SaveDuration(v) ==
    /\ job[v].pc = "pv_save2"
    /\ IF store[v].exists
       THEN job' = [job EXCEPT ![v].pc = "pv_sensitivity"]
       ELSE Throw(v, "metadata")
    /\ UNCHANGED <<store, files>>
    /\ UNCHANGED PipelineFrame

\* processSensitivityCheck settles.  It never rejects: its own catch turns
\* any error of the scan into the default result {flagged: false, level: 'low'}.
\* The finalize fields are then set on the document and save() is issued.
PV_Sensitivity(v) ==
    /\ job[v].pc = "pv_sensitivity"
    /\ \/ \E score \in ScoreSamples :
              job' = [job EXCEPT ![v].pc = "pv_save3",
                                 ![v].flagged = Flagged(score),
                                 ![v].level = Level(score)]
       \/ job' = [job EXCEPT ![v].pc = "pv_save3",
                             ![v].flagged = FALSE,
                             ![v].level = "low",
                             ![v].stageError = "sensitivity"]
    /\ UNCHANGED <<store, files>>
    /\ UNCHANGED PipelineFrame

FinalizeRecord_NoProgress(rec, level, flagged) ==
    [rec EXCEPT !.processedFilePath = TRUE,
                !.thumbnailPath = TRUE,
                !.sensitivityLevel = level,
                !.status = FinalStatus(flagged)]

FinalizeRecord_DefaultLevel(rec, level, flagged) ==
    [rec EXCEPT !.processedFilePath = TRUE,
                !.thumbnailPath = TRUE,
                !.processingProgress = 100,
                !.status = FinalStatus(flagged)]

\* The fields processVideo sets on the document once the scan has returned:
\* both paths, the scan's level, progress 100 and the status.
FinalizeRecord(rec, level, flagged) ==
    [rec EXCEPT !.processedFilePath = TRUE,
                !.thumbnailPath = TRUE,
                !.sensitivityLevel = level,
                !.processingProgress = 100,
                !.status = FinalStatus(flagged)]

\* The finalize save().  On success the promotion timer is set, processVideo
\* returns and processNext runs through its finally block in the same turn.
PV_SaveFinal(v) ==
    /\ job[v].pc = "pv_save3"
    /\ IF store[v].exists
       THEN /\ store' = [store EXCEPT ![v] =
                            FinalizeRecord(store[v], job[v].level, job[v].flagged)]
            /\ promo' = [promo EXCEPT ![v] = "scheduled"]
            /\ Finally([job EXCEPT ![v] = [NewJob EXCEPT !.pc = "succeeded"]], FALSE)
       ELSE /\ Throw(v, "finalize")
            /\ UNCHANGED <<store, promo, processingQueue, isProcessing,
                           currentVideoId, immediates>>
    /\ UNCHANGED <<files, del, nextVideoId, updates, started>>
    /\ UNCHANGED callVars

\* catch: Video.findById resolves; if the record is there its status is set
\* to 'failed' and save() is issued.
PV_CatchFind(v) ==
    /\ job[v].pc = "pv_catch_find"
    /\ job' = [job EXCEPT ![v].pc =
                  IF store[v].exists THEN "pv_catch_save" ELSE "pv_cleanup"]
    /\ UNCHANGED <<store, files>>
    /\ UNCHANGED PipelineFrame

\* catch: the save() of status 'failed'; an error of it is logged and dropped.
PV_CatchSave(v) ==
    /\ job[v].pc = "pv_catch_save"
    /\ store' = IF store[v].exists
                THEN [store EXCEPT ![v].status = "failed"]
                ELSE store
    /\ job' = [job EXCEPT ![v].pc = "pv_cleanup"]
    /\ UNCHANGED files
    /\ UNCHANGED PipelineFrame

CleanupFiles_DeleteVideoFiles(f, rec, unlinkOk) ==
    [f EXCEPT
        !.original = IF rec.exists /\ unlinkOk THEN FALSE ELSE f.original,
        !.processed = IF rec.exists /\ rec.processedFilePath /\ unlinkOk
                      THEN FALSE ELSE f.processed,
        !.thumbnail = IF rec.exists /\ rec.thumbnailPath /\ unlinkOk
                      THEN FALSE ELSE f.thumbnail]

\* The files of a video after the catch block's cleanup: deleteFile is called
\* on the record's processedFilePath and thumbnailPath, on nothing else.
CleanupFiles(f, rec, unlinkOk) ==
    [f EXCEPT
        !.processed = IF rec.exists /\ rec.processedFilePath /\ unlinkOk
                      THEN FALSE ELSE f.processed,
        !.thumbnail = IF rec.exists /\ rec.thumbnailPath /\ unlinkOk
                      THEN FALSE ELSE f.thumbnail]

\* catch: cleanup.  The record is read again and the files named by its
\* processedFilePath / thumbnailPath fields are deleted; a deletion error
\* ends the cleanup.  Then the error is rethrown to processNext, whose catch
\* issues Video.findById(...).populate(...).
PV_Cleanup(v) ==
    /\ job[v].pc = "pv_cleanup"
    /\ \E unlinkOk \in BOOLEAN :
         files' = [files EXCEPT ![v] = CleanupFiles(files[v], store[v], unlinkOk)]
    /\ job' = [job EXCEPT ![v].pc = "pn_catch_find"]
    /\ UNCHANGED store
    /\ UNCHANGED PipelineFrame

\* processNext catch: the lookup settles, the failure events are emitted and
\* the finally block runs.
PN_CatchFind(v) ==
    /\ job[v].pc = "pn_catch_find"
    /\ Finally([job EXCEPT ![v] = [NewJob EXCEPT !.pc = "failed"]], TRUE)
    /\ UNCHANGED <<store, files, promo, del, nextVideoId, updates, started>>
    /\ UNCHANGED callVars

(***************************************************************************)
(* Delayed promotion to 'ready' (setTimeout callback in processVideo)      *)
(***************************************************************************)

\* The timer fires: Video.findById resolves and, if the guard holds,
\* status is set to 'ready' on the document and save() is issued.
Promo_Find(v) ==
    /\ promo[v] = "scheduled"
    /\ promo' = [promo EXCEPT ![v] =
                    IF store[v].exists /\ PromotionGuard(store[v].status)
                    THEN "saving" ELSE "done"]
    /\ UNCHANGED <<store, files, processingQueue, isProcessing, currentVideoId,
                   immediates, job, del, nextVideoId, updates, started>>
    /\ UNCHANGED callVars

\* The save() of status 'ready' takes effect (it rejects when the document
\* is gone).
Promo_Save(v) ==
    /\ promo[v] = "saving"
    /\ promo' = [promo EXCEPT ![v] = "done"]
    /\ store' = IF store[v].exists
                THEN [store EXCEPT ![v].status = "ready"]
                ELSE store
    /\ UNCHANGED <<files, processingQueue, isProcessing, currentVideoId,
                   immediates, job, del, nextVideoId, updates, started>>
    /\ UNCHANGED callVars

(***************************************************************************)
(* Other writers: the video controller                                     *)
(***************************************************************************)

\* deleteVideo: the record is found and deleteVideoFiles removes the files
\* its path fields name.
DV_DeleteFiles(v) ==
    /\ del[v] = "none"
    /\ store[v].exists
    /\ Cardinality({w \in VideoIds : del[w] # "none"}) < MaxDeletes
    /\ del' = [del EXCEPT ![v] = "files"]
    /\ files' = [files EXCEPT
          ![v].original = FALSE,
          ![v].processed = IF store[v].processedFilePath THEN FALSE
                           ELSE files[v].processed,
          ![v].thumbnail = IF store[v].thumbnailPath THEN FALSE
                           ELSE files[v].thumbnail]
    /\ UNCHANGED <<store, processingQueue, isProcessing, currentVideoId,
                   immediates, job, promo, nextVideoId, updates, started>>
    /\ UNCHANGED callVars

\* deleteVideo: Video.findByIdAndDelete(id).
DV_DeleteRecord(v) ==
    /\ del[v] = "files"
    /\ del' = [del EXCEPT ![v] = "done"]
    /\ store' = [store EXCEPT ![v] = NoRecord]
    /\ UNCHANGED <<files, processingQueue, isProcessing, currentVideoId,
                   immediates, job, promo, nextVideoId, updates, started>>
    /\ UNCHANGED callVars

\* updateVideo: Video.findByIdAndUpdate(id, req.body) with a status in the
\* body; runValidators keeps it inside the schema's enum.
UpdateVideo(v, status) ==
    /\ updates < MaxUpdates
    /\ store[v].exists
    /\ store[v].status # status
    /\ updates' = updates + 1
    /\ store' = [store EXCEPT ![v].status = status]
    /\ UNCHANGED <<files, processingQueue, isProcessing, currentVideoId,
                   immediates, job, promo, del, nextVideoId, started>>
    /\ UNCHANGED callVars

(***************************************************************************)
(* Specifications                                                          *)
(***************************************************************************)

WorkerStep(v) ==
    \/ PN_FindVideo(v)
    \/ PV_FindVideo(v)
    \/ PV_SaveProcessing(v)
    \/ PV_Transcode(v)
    \/ PV_Thumbnail(v)
    \/ PV_Metadata(v)
    \/ PV_SaveDuration(v)
    \/ PV_Sensitivity(v)
    \/ PV_SaveFinal(v)
    \/ PV_CatchFind(v)
    \/ PV_CatchSave(v)
    \/ PV_Cleanup(v)
    \/ PN_CatchFind(v)

Next ==
    \/ UploadVideo
    \/ ProcessNextImmediate
    \/ \E v \in VideoIds : WorkerStep(v)
    \/ \E v \in VideoIds : Promo_Find(v)
    \/ \E v \in VideoIds : Promo_Save(v)

\* Uploads, the queue, the pipeline and the delayed promotion: the records
\* are written by nothing else.
Spec == Init /\ [][Next]_vars

NextDel ==
    \/ Next
    \/ \E v \in VideoIds : DV_DeleteFiles(v)
    \/ \E v \in VideoIds : DV_DeleteRecord(v)

\* As Spec, with deleteVideo requests served in between: records and
\* original files may disappear under a queued or running job.
SpecDel == Init /\ [][NextDel]_vars

NextExt ==
    \/ Next
    \/ \E v \in VideoIds, status \in Statuses : UpdateVideo(v, status)

\* As Spec, with updateVideo requests that set the status field served in
\* between.
SpecExt == Init /\ [][NextExt]_vars

\* As Spec, under the event loop's scheduling: a callback that is ready to
\* run is eventually run, and every started stage eventually settles.
LiveSpec ==
    /\ Spec
    /\ WF_vars(ProcessNextImmediate)
    /\ \A v \in VideoIds : WF_vars(WorkerStep(v))

TypeOK ==
    /\ \A v \in VideoIds :
          /\ store[v].exists => store[v].status \in Statuses
          /\ store[v].sensitivityLevel \in Levels
          /\ promo[v] \in {"none", "scheduled", "saving", "done"}
          /\ del[v] \in {"none", "files", "done"}
    /\ isProcessing \in BOOLEAN
    /\ currentVideoId \in VideoIds \cup {Null}
    /\ immediates \in 0..MaxVideos
    /\ nextVideoId \in 1..(MaxVideos + 1)
    /\ updates \in 0..MaxUpdates

(***************************************************************************)
(* Properties of the job queue                                             *)
(***************************************************************************)

\* Number of times processVideo was invoked for v.
Runs(v) == Cardinality({i \in DOMAIN started : started[i] = v})

\* Number of entries for v in the queue.
Queued(v) == Cardinality({i \in DOMAIN processingQueue : processingQueue[i] = v})

\* Ids that were passed to addToQueue so far.
Enqueued == 1..(nextVideoId - 1)

\* C1: at most one job is executing at any moment: processNext/processVideo is
\* never in progress for two queue entries at once.
C1_MutualExclusion ==
    Cardinality({v \in VideoIds : job[v].pc \in RunningPcs}) <= 1

\* A job is inside the pipeline while a deferred advance is pending and
\* another entry waits: the advance will find the worker busy.
C1_Witness ==
    \E v \in VideoIds :
        /\ job[v].pc \in PipelinePcs
        /\ immediates > 0
        /\ Len(processingQueue) > 0

C3_FailureIsolation ==
    [][\A v \in VideoIds :
          (job[v].pc \in RunningPcs /\ job'[v].pc = "failed") =>
              /\ isProcessing' = FALSE
              /\ currentVideoId' = Null
              /\ Len(processingQueue') > 0 => immediates' > 0]_vars

\* A job has failed and the next entry is inside the pipeline.
C3_Witness ==
    \E v, w \in VideoIds :
        /\ v < w
        /\ job[v].pc = "failed"
        /\ job[w].pc \in PipelinePcs

\* C4: jobs start (processVideo is invoked) in the order of the addToQueue
\* calls; ids are handed out in call order, so the i-th start is id i, and
\* the entries still waiting are in call order behind every started one.
C4_FifoStartOrder ==
    /\ \A i \in DOMAIN started : started[i] = i
    /\ \A i \in DOMAIN processingQueue :
          /\ processingQueue[i] > Len(started)
          /\ \A k \in DOMAIN processingQueue :
                i < k => processingQueue[i] < processingQueue[k]

\* An entry was enqueued between a job's end and the deferred advance (the
\* advance is still pending while the worker is busy again): the second job
\* runs and the newly enqueued third entry waits.
C4_Witness ==
    /\ immediates > 0
    /\ isProcessing
    /\ started = <<1, 2>>
    /\ processingQueue = <<3>>

\* C5: every enqueued job eventually starts executing, and a busy or
\* non-empty queue eventually becomes empty and idle.
C5_QueueLiveness ==
    /\ \A v \in VideoIds : (job[v].pc = "queued") ~> (job[v].pc = "pv_find")
    /\ (isProcessing \/ Len(processingQueue) > 0)
          ~> (~isProcessing /\ Len(processingQueue) = 0)

\* Entry 3 was enqueued after job 1 ended and before the deferred advance
\* ran: that addToQueue call took entry 2, entry 3 waits and the advance is
\* still pending.
C5_Witness ==
    /\ job[3].pc = "queued"
    /\ job[2].pc = "pn_find"
    /\ job[1].pc \in {"succeeded", "failed"}
    /\ immediates = 1

(***************************************************************************)
(* Properties of the record status                                         *)
(***************************************************************************)

\* The transitions of the status state machine as the specification draws it.
SpecTransitions ==
    {<<"uploaded", "processing">>, <<"processing", "safe">>,
     <<"processing", "flagged">>, <<"processing", "failed">>,
     <<"safe", "ready">>, <<"flagged", "ready">>}

\* The step changes the stored status of record v.
StatusChange(v) ==
    /\ store[v].exists
    /\ store'[v].exists
    /\ store'[v].status # store[v].status

C7_PromotionGuarded ==
    [][\A v \in VideoIds :
          (promo[v] = "saving" /\ promo'[v] = "done" /\ store[v].exists) =>
              store[v].status \in {"safe", "flagged"}]_vars

CatchPcs == {"pv_catch_find", "pv_catch_save", "pv_cleanup", "pn_catch_find"}

\* C9: once a stage of processVideo has raised an error, the pipeline is in
\* its failure handling (no later stage runs), and the job ends as failed
\* with the record, if it exists, in status failed.
C9_StageErrorFailsJob ==
    [][\A v \in VideoIds :
          job[v].stageError # "none" =>
              /\ job[v].pc \in CatchPcs
              /\ job'[v].pc \notin RunningPcs =>
                    /\ job'[v].pc = "failed"
                    /\ store'[v].exists => store'[v].status = "failed"]_vars

\* C10: when the run failed in a stage after the transcode had produced its
\* output, then once the failure handler's cleanup has run no derivative and
\* no thumbnail of that run is left on disk.
C10_CleanupOnFailure ==
    \A v \in VideoIds :
        (/\ job[v].pc = "pn_catch_find"
         /\ job[v].stageError \in {"thumbnail", "metadata", "finalize"}) =>
            ~files[v].processed /\ ~files[v].thumbnail

(***************************************************************************)
(* Properties of the pipeline's results                                    *)
(***************************************************************************)

\* C11: the pipeline never removes the original upload: whatever path
\* processVideo takes (success, or a failure in any stage followed by the
\* cleanup), the original file of every uploaded video is still on disk.
C11_OriginalKept ==
    \A v \in Enqueued : files[v].original

\* One run has failed after the transcode wrote its output and its cleanup
\* has run; another run has succeeded.
C11_Witness ==
    /\ \E v \in VideoIds :
          /\ job[v].pc = "pn_catch_find"
          /\ job[v].stageError \in {"thumbnail", "metadata"}
    /\ \E w \in VideoIds : job[w].pc = "succeeded"

\* C14: the step in which processVideo completes leaves the record with both
\* path fields set, progress 100, the level the scan returned, and status
\* flagged if the scan flagged the video and safe otherwise.
C14_FinalizeResult ==
    [][\A v \in VideoIds :
          (job[v].pc = "pv_save3" /\ job'[v].pc = "succeeded") =>
              /\ store'[v].processedFilePath
              /\ store'[v].thumbnailPath
              /\ store'[v].processingProgress = 100
              /\ store'[v].sensitivityLevel = job[v].level
              /\ store'[v].status = (IF job[v].flagged THEN "flagged" ELSE "safe")]_vars

\* A run completed on a scan that flagged the video at level medium, and a
\* run completed on a scan that did not flag.
C14_Witness ==
    /\ \E v \in VideoIds :
          /\ job[v].pc = "succeeded"
          /\ promo[v] = "scheduled"
          /\ store[v].status = "flagged"
          /\ store[v].sensitivityLevel = "medium"
          /\ store[v].processingProgress = 100
    /\ \E w \in VideoIds :
          /\ job[w].pc = "succeeded"
          /\ promo[w] = "scheduled"
          /\ store[w].status = "safe"

(***************************************************************************)
(* One processVideo run seen through its progress callback                 *)
(*                                                                         *)
(* progressRun.reported is the sequence of percentages passed to           *)
(* progressCallback so far; progressRun.last is the latest report that a   *)
(* stage's inner callback produced, with the stage-internal value it was   *)
(* computed from.                                                          *)
(***************************************************************************)

\* Number of 'progress' events of the encoder followed in one transcode.
MaxProgressEvents == 2

\* progress.percent as the encoder wrapper hands it to the 'progress'
\* handler.  The wrapper estimates it as output time over the input's
\* declared duration: it grows with the output time, and it exceeds 100
\* when the declared duration is shorter than the stream.
EnginePercents == {0, 1, 50, 100, 150, 300}

TranscodeProgress_ThumbnailWeight(p) == 10 + (p * 2) \div 10

\* const overallProgress = 10 + Math.floor(progress * 0.3)
TranscodeProgress(p) == 10 + (p * 3) \div 10

\* const overallProgress = 40 + Math.floor(progress * 0.2)
ThumbnailProgress(p) == 40 + (p * 2) \div 10

\* const overallProgress = 70 + Math.floor(progress * 0.2)
SensitivityProgress(p) == 70 + (p * 2) \div 10

\* const progress = 30 + Math.floor((i / totalFrames) * 50)
FrameProgress(i, totalFrames) == 30 + (i * 50) \div totalFrames

NoReport == [stage |-> "none", p |-> 0, value |-> 0]

\* processVideo has been invoked and awaits its first save().
NewRun ==
    [pc |-> "start", reported |-> <<>>, last |-> NoReport,
     events |-> 0, percent |-> 0, totalFrames |-> 0, i |-> 0]

\* progressCallback(value, message) called directly by processVideo.
Report(run, value) == [run EXCEPT !.reported = Append(@, value)]

\* The scan's inner callback is called with p.
ReportScan(run, p) ==
    [run EXCEPT !.reported = Append(@, SensitivityProgress(p)),
                !.last = [stage |-> "sensitivity", p |-> p,
                          value |-> SensitivityProgress(p)]]

ProgressInit ==
    /\ QueueInit
    /\ NoMoreCalls
    /\ progressRun = NewRun
    /\ scan = NoCall
    /\ stream = NoCall

\* The save() of status 'processing' resolves: 10 is reported and the
\* transcode is started.
Run_Start ==
    /\ progressRun.pc = "start"
    /\ progressRun' = [Report(progressRun, 10) EXCEPT !.pc = "transcode"]
    /\ UNCHANGED <<queueVars, scan, stream, moreCalls>>

\* A 'progress' event of the encoder: if (progressCallback && progress.percent)
\* the percentage is passed on and mapped into the transcode band.
Run_TranscodeProgress(p) ==
    /\ progressRun.pc = "transcode"
    /\ progressRun.events < MaxProgressEvents
    /\ p >= progressRun.percent
    /\ progressRun' =
          IF p = 0
          THEN [progressRun EXCEPT !.events = @ + 1]
          ELSE [progressRun EXCEPT
                   !.events = @ + 1,
                   !.percent = p,
                   !.reported = Append(@, TranscodeProgress(p)),
                   !.last = [stage |-> "transcode", p |-> p,
                             value |-> TranscodeProgress(p)]]
    /\ UNCHANGED <<queueVars, scan, stream, moreCalls>>

\* The encoder's 'end' event: 40 is reported and the thumbnail is started.
Run_TranscodeEnd ==
    /\ progressRun.pc = "transcode"
    /\ progressRun' = [Report(progressRun, 40) EXCEPT !.pc = "thumbnail"]
    /\ UNCHANGED <<queueVars, scan, stream, moreCalls>>

\* generateThumbnail's 'end' handler calls the inner callback with 100 and
\* resolves; processVideo reports 60 and starts getVideoMetadata.
Run_ThumbnailEnd ==
    /\ progressRun.pc = "thumbnail"
    /\ progressRun' =
          [Report(Report(progressRun, ThumbnailProgress(100)), 60) EXCEPT
              !.pc = "metadata",
              !.last = [stage |-> "thumbnail", p |-> 100,
                        value |-> ThumbnailProgress(100)]]
    /\ UNCHANGED <<queueVars, scan, stream, moreCalls>>

\* The metadata and the save() of the duration are through: 70 is reported
\* twice and processSensitivityCheck runs up to its first await, reporting 10,
\* making the frame directory and reporting 20.  A failing mkdir is caught by
\* the scan, which returns its default result without a further report.
Run_Metadata ==
    /\ progressRun.pc = "metadata"
    /\ LET r == ReportScan(Report(Report(progressRun, 70), 70), 10) IN
          \/ progressRun' = [ReportScan(r, 20) EXCEPT !.pc = "extract"]
          \/ progressRun' = [r EXCEPT !.pc = "finalize"]
    /\ UNCHANGED <<queueVars, scan, stream, moreCalls>>

\* extractFrames settles.  No frame: the scan returns at once.  Otherwise 30
\* and the first frame's value are reported and the first analysis starts.
Run_ExtractFrames(n) ==
    /\ progressRun.pc = "extract"
    /\ \/ /\ n = 0
          /\ progressRun' = [progressRun EXCEPT !.pc = "finalize"]
       \/ /\ n > 0
          /\ progressRun' =
                [ReportScan(ReportScan(progressRun, 30), FrameProgress(0, n))
                    EXCEPT !.pc = "analyze", !.totalFrames = n, !.i = 0]
    /\ UNCHANGED <<queueVars, scan, stream, moreCalls>>

\* extractFrames rejects: the scan's catch returns the default result.
Run_ExtractReject ==
    /\ progressRun.pc = "extract"
    /\ progressRun' = [progressRun EXCEPT !.pc = "finalize"]
    /\ UNCHANGED <<queueVars, scan, stream, moreCalls>>

\* The analysis of frame i settles.  Either the next frame's value is
\* reported, or the loop is over: 85 is reported, the score is computed, the
\* frames are removed, 100 is reported and the scan returns.
Run_AnalyzeFrame ==
    /\ progressRun.pc = "analyze"
    /\ LET next == progressRun.i + 1 IN
          progressRun' =
             IF next < progressRun.totalFrames
             THEN [ReportScan(progressRun,
                              FrameProgress(next, progressRun.totalFrames))
                      EXCEPT !.i = next]
             ELSE [ReportScan(ReportScan(progressRun, 85), 100)
                      EXCEPT !.i = next, !.pc = "finalize"]
    /\ UNCHANGED <<queueVars, scan, stream, moreCalls>>

\* The finalize save() settles: on success 100 is reported and processVideo
\* returns; a rejection goes to the catch block.
Run_SaveFinal ==
    /\ progressRun.pc = "finalize"
    /\ \/ progressRun' = [Report(progressRun, 100) EXCEPT !.pc = "done"]
       \/ progressRun' = [progressRun EXCEPT !.pc = "failed"]
    /\ UNCHANGED <<queueVars, scan, stream, moreCalls>>

\* A stage rejects (or the first save() does): control moves to the catch
\* block, which reports nothing.
Run_Throw ==
    /\ progressRun.pc \in {"start", "transcode", "thumbnail", "metadata"}
    /\ progressRun' = [progressRun EXCEPT !.pc = "failed"]
    /\ UNCHANGED <<queueVars, scan, stream, moreCalls>>

ProgressNext ==
    \/ Run_Start
    \/ \E p \in EnginePercents : Run_TranscodeProgress(p)
    \/ Run_TranscodeEnd
    \/ Run_ThumbnailEnd
    \/ Run_Metadata
    \/ \E n \in 0..MaxFrames : Run_ExtractFrames(n)
    \/ Run_ExtractReject
    \/ Run_AnalyzeFrame
    \/ Run_SaveFinal
    \/ Run_Throw

\* One run of processVideo with every outcome of its stages and every
\* sequence of percentages the encoder may report.
ProgressSpec == ProgressInit /\ [][ProgressNext]_vars

\* C12: the percentages passed to the progress callback in one run never
\* decrease, all lie in 0..100, and 100 is reported only by a run that has
\* completed (after the finalize save).
C12_ProgressMonotone ==
    LET r == progressRun.reported IN
        /\ \A k \in 1..(Len(r) - 1) : r[k] <= r[k + 1]
        /\ \A k \in 1..Len(r) : r[k] \in 0..100
        /\ (\E k \in 1..Len(r) : r[k] = 100) => progressRun.pc = "done"

\* C13: an internal progress p in 0..100 of a stage is reported as
\* base + floor(p * weight / 100), with (10, 30) for the transcode, (40, 20)
\* for the thumbnail and (70, 20) for the scan, which lies in the stage's
\* band; 50 in the transcode is reported as 25.
C13_StageBands ==
    LET l == progressRun.last
        base == CASE l.stage = "transcode" -> 10
                  [] l.stage = "thumbnail" -> 40
                  [] OTHER -> 70
        weight == IF l.stage = "transcode" THEN 30 ELSE 20
    IN  (l.stage # "none" /\ l.p \in 0..100) =>
            /\ l.value = base + (l.p * weight) \div 100
            /\ l.value \in base..(base + weight)
            /\ (l.stage = "transcode" /\ l.p = 50) => l.value = 25

\* The encoder reported 50 in the transcode and the run went on to report a
\* frame of the scan.
C13_Witness ==
    /\ Len(progressRun.reported) >= 2
    /\ progressRun.reported[2] = 25
    /\ progressRun.pc = "analyze"
    /\ progressRun.last.stage = "sensitivity"
    /\ progressRun.last.p = FrameProgress(1, 2)

(***************************************************************************)
(* One processSensitivityCheck call                                        *)
(*                                                                         *)
(* Frames are named by their timestamps.  scan.frameFiles is the set of    *)
(* frame files in the temp_frames directory, scan.tempDir tells whether    *)
(* the directory exists, scan.framePaths and scan.frameAnalyses are the    *)
(* locals of the call.                                                     *)
(***************************************************************************)

\* extractFrames(videoPath, 5, tempDir): seconds between two sampled frames.
FRAME_INTERVAL == 5

\* metadata.format.duration of the scanned file, in seconds.
Durations == 0..(FRAME_INTERVAL * MaxFrames)

\* Values analyzeBrightness may resolve with (mean / 255 clamped to 0..1).
BrightnessSamples == {Hundredths(h) : h \in {19, 20, 50, 90, 91}}

\* Values analyzeSkinTone may return (below 0.6: a base below 0.2 plus 0 or 0.4).
SkinToneSamples == {Hundredths(h) : h \in {10, 40, 41, 59}}

Min(a, b) == IF a <= b THEN a ELSE b

Timestamps_UpTo(duration) ==
    LET frameCount == duration \div FRAME_INTERVAL + 1
        Stamp(i) == (i - 1) * FRAME_INTERVAL
    IN  SelectSeq([i \in 1..frameCount |-> Stamp(i)],
                  LAMBDA ts : ts <= duration)

\* The timestamps extractFrames asks the engine for: i * interval for
\* i < Math.ceil(duration / interval), kept when below the duration.
Timestamps(duration) ==
    LET frameCount == (duration + FRAME_INTERVAL - 1) \div FRAME_INTERVAL
        Stamp(i) == (i - 1) * FRAME_INTERVAL
    IN  SelectSeq([i \in 1..frameCount |-> Stamp(i)],
                  LAMBDA ts : ts < duration)

\* The frame score of one analysis, as the forEach body and the
\* flaggedFrames filter both compute it.
FrameScore(a) ==
    (IF a.brightness < BRIGHTNESS_MIN \/ a.brightness > BRIGHTNESS_MAX
     THEN Hundredths(30) ELSE 0)
    + (IF a.skinTone > Hundredths(40) THEN (a.skinTone * 7) \div 10 ELSE 0)

FrameFlagged_Quarter(frameScore) == frameScore > Hundredths(25)

\* if (frameScore > 0.5) flaggedFrames++
FrameFlagged(frameScore) == frameScore > Hundredths(50)

\* frameAnalyses.forEach: totalScore and flaggedFrames after the analyses.
RECURSIVE ForEachAnalysis(_, _)
ForEachAnalysis(analyses, acc) ==
    IF analyses = <<>>
    THEN acc
    ELSE LET frameScore == FrameScore(Head(analyses)) IN
         ForEachAnalysis(Tail(analyses),
            [totalScore |-> acc.totalScore + frameScore,
             flaggedFrames |-> acc.flaggedFrames
                                 + (IF FrameFlagged(frameScore) THEN 1 ELSE 0)])

calculateSensitivityScore_NoCap(frameAnalyses) ==
    IF Len(frameAnalyses) = 0
    THEN 0
    ELSE LET acc == ForEachAnalysis(frameAnalyses,
                        [totalScore |-> 0, flaggedFrames |-> 0])
             averageScore == acc.totalScore \div Len(frameAnalyses)
         IN  averageScore
               + (acc.flaggedFrames * Hundredths(30)) \div Len(frameAnalyses)

calculateSensitivityScore(frameAnalyses) ==
    IF Len(frameAnalyses) = 0
    THEN 0
    ELSE LET acc == ForEachAnalysis(frameAnalyses,
                        [totalScore |-> 0, flaggedFrames |-> 0])
             averageScore == acc.totalScore \div Len(frameAnalyses)
             finalScore ==
                 averageScore
                   + (acc.flaggedFrames * Hundredths(30)) \div Len(frameAnalyses)
         IN  Min(finalScore, One)

NoResult ==
    [flagged |-> FALSE, level |-> "none", confidence |-> 0, score |-> 0,
     framesAnalyzed |-> 0, flaggedFrames |-> 0]

NoFramesResult_Medium ==
    [flagged |-> FALSE, level |-> "medium", confidence |-> 0, score |-> 0,
     framesAnalyzed |-> 0, flaggedFrames |-> 0]

\* The object returned when extractFrames resolved with no frame.
NoFramesResult ==
    [flagged |-> FALSE, level |-> "low", confidence |-> 0, score |-> 0,
     framesAnalyzed |-> 0, flaggedFrames |-> 0]

\* The object returned by the catch block.
ErrorResult ==
    [flagged |-> FALSE, level |-> "low", confidence |-> 0, score |-> 0,
     framesAnalyzed |-> 0, flaggedFrames |-> 0]

\* The object returned after the frame loop.
ScanResult(frameAnalyses) ==
    LET score == calculateSensitivityScore(frameAnalyses) IN
        [flagged |-> Flagged(score),
         level |-> Level(score),
         confidence |-> score,
         score |-> score,
         framesAnalyzed |-> Len(frameAnalyses),
         flaggedFrames |->
             Cardinality({k \in DOMAIN frameAnalyses :
                             FrameFlagged(FrameScore(frameAnalyses[k]))})]

\* The set of the entries of a sequence.
Range(seq) == {seq[k] : k \in DOMAIN seq}

\* framePaths.forEach(unlinkSync), then rmdirSync(tempDir), which fails (and
\* is ignored) on a directory that is not empty.
CleanupFrames(sc) ==
    LET left == sc.frameFiles \ Range(sc.framePaths) IN
        [sc EXCEPT !.frameFiles = left,
                   !.tempDir = sc.tempDir /\ left # {}]

\* processSensitivityCheck has been called for a file of the given duration;
\* dirExisted tells whether temp_frames is already there.
NewScan(duration, dirExisted) ==
    [pc |-> "start", duration |-> duration, dirExisted |-> dirExisted,
     tempDir |-> dirExisted, frameFiles |-> {}, framePaths |-> <<>>,
     frameAnalyses |-> <<>>, i |-> 0, exit |-> "none", result |-> NoResult]

ScanInit ==
    /\ QueueInit
    /\ NoMoreCalls
    /\ progressRun = NoCall
    /\ scan \in {NewScan(d, e) : d \in Durations, e \in BOOLEAN}
    /\ stream = NoCall

\* The call runs up to its first await: the directory is made if missing
\* (mkdirSync may throw) and extractFrames starts with ffprobe.
Scan_Start ==
    /\ scan.pc = "start"
    /\ \/ scan' = [scan EXCEPT !.pc = "probe", !.tempDir = TRUE]
       \/ /\ ~scan.tempDir
          /\ scan' = [scan EXCEPT !.pc = "catch"]
    /\ UNCHANGED <<queueVars, progressRun, stream, moreCalls>>

\* The frame loop's start once extractFrames resolved with framePaths, or
\* the early return when there is none.
FramesExtracted(sc, framePaths) ==
    IF Len(framePaths) = 0
    THEN [sc EXCEPT !.pc = "returned", !.exit = "zero",
                    !.result = NoFramesResult]
    ELSE [sc EXCEPT !.pc = "analyze", !.framePaths = framePaths]

\* ffprobe calls back: an error rejects; without a timestamp extractFrames
\* resolves with []; otherwise the screenshots are started.
Scan_Probe ==
    /\ scan.pc = "probe"
    /\ \/ scan' = [scan EXCEPT !.pc = "catch"]
       \/ scan' = IF Len(Timestamps(scan.duration)) = 0
                  THEN FramesExtracted(scan, <<>>)
                  ELSE [scan EXCEPT !.pc = "screenshots"]
    /\ UNCHANGED <<queueVars, progressRun, stream, moreCalls>>

\* The screenshots settle, with the frame files in written on disk: on 'end'
\* the existing ones become framePaths, on 'error' extractFrames rejects.
Scan_Screenshots(written) ==
    /\ scan.pc = "screenshots"
    /\ written \subseteq Range(Timestamps(scan.duration))
    /\ LET sc == [scan EXCEPT !.frameFiles = written] IN
          \/ scan' = FramesExtracted(sc,
                        SelectSeq(Timestamps(scan.duration),
                                  LAMBDA ts : ts \in written))
          \/ scan' = [sc EXCEPT !.pc = "catch"]
    /\ UNCHANGED <<queueVars, progressRun, stream, moreCalls>>

\* The call sc after one pass of the frame loop that pushed the analysis
\* {brightness, skinTone}, run on to the return after the last frame.
FrameAnalyzed(sc0, brightness, skinTone) ==
    LET sc == [sc0 EXCEPT
                  !.i = @ + 1,
                  !.frameAnalyses =
                      Append(@, [brightness |-> brightness,
                                 skinTone |-> skinTone])]
    IN  IF sc.i < Len(sc.framePaths)
        THEN sc
        ELSE [CleanupFrames(sc) EXCEPT
                 !.pc = "returned", !.exit = "normal",
                 !.result = ScanResult(sc.frameAnalyses)]

\* analyzeBrightness and analyzeSkinTone settle for frame i and the analysis
\* is pushed.  After the last frame the score is computed, the frames and
\* the directory are removed and the result is returned.
Scan_AnalyzeFrame(brightness, skinTone) ==
    /\ scan.pc = "analyze"
    /\ scan' = FrameAnalyzed(scan, brightness, skinTone)
    /\ UNCHANGED <<queueVars, progressRun, stream, moreCalls>>

\* The catch block: the same cleanup over framePaths, then the default
\* result is returned.
Scan_Catch ==
    /\ scan.pc = "catch"
    /\ scan' = [CleanupFrames(scan) EXCEPT
                   !.pc = "returned", !.exit = "error", !.result = ErrorResult]
    /\ UNCHANGED <<queueVars, progressRun, stream, moreCalls>>

ScanNext ==
    \/ Scan_Start
    \/ Scan_Probe
    \/ \E written \in SUBSET {(i - 1) * FRAME_INTERVAL : i \in 1..MaxFrames} :
          Scan_Screenshots(written)
    \/ \E b \in BrightnessSamples, s \in SkinToneSamples : Scan_AnalyzeFrame(b, s)
    \/ Scan_Catch

\* One call of processSensitivityCheck, for every duration, every outcome of
\* the engine and every analysis value.
ScanSpec == ScanInit /\ [][ScanNext]_vars

(***************************************************************************)
(* Properties of the scorer                                                *)
(***************************************************************************)

RECURSIVE SeqSum(_)
SeqSum(seq) == IF seq = <<>> THEN 0 ELSE Head(seq) + SeqSum(Tail(seq))

\* The call has returned after the frame loop.
ScanCompleted == scan.pc = "returned" /\ scan.exit = "normal"

\* C15: when processSensitivityCheck has returned, on whichever path, no
\* frame file is left in temp_frames and a directory the call created has
\* been removed.
C15_TempCleanup ==
    scan.pc = "returned" =>
        /\ scan.frameFiles = {}
        /\ ~scan.dirExisted => ~scan.tempDir

\* C16: in every returned result, flagged holds iff the score is above 0.6,
\* the level is high iff the score is above 0.8, medium iff it is above 0.5
\* and at most 0.8, low iff it is at most 0.5, and confidence is the score.
C16_Thresholds ==
    scan.pc = "returned" =>
        LET r == scan.result
            s == r.score
        IN  /\ r.flagged <=> s > Hundredths(60)
            /\ r.level = "high" <=> s > Hundredths(80)
            /\ r.level = "medium" <=> (s > Hundredths(50) /\ s <= Hundredths(80))
            /\ r.level = "low" <=> s <= Hundredths(50)
            /\ r.confidence = s

\* A scan of two frames returned a score above 0.6 and at most 0.8.
C16_Witness ==
    /\ ScanCompleted
    /\ Len(scan.frameAnalyses) = 2
    /\ scan.result.flagged
    /\ scan.result.level = "medium"

\* C17: a frame scores 0.3 if its brightness is below 0.2 or above 0.9, plus
\* 0.7 times its skin-tone value if that is above 0.4; the overall score of a
\* non-empty frame list is min(1, mean + 0.3 * (number of frames scoring
\* above 0.5) / (number of frames)), and lies in 0..1.
C17_ScorerFormula ==
    ScanCompleted =>
        LET a == scan.frameAnalyses
            n == Len(a)
            f == [k \in 1..n |->
                    (IF a[k].brightness < Hundredths(20)
                        \/ a[k].brightness > Hundredths(90)
                     THEN Hundredths(30) ELSE 0)
                    + (IF a[k].skinTone > Hundredths(40)
                       THEN (7 * a[k].skinTone) \div 10 ELSE 0)]
            above == Cardinality({k \in 1..n : f[k] > Hundredths(50)})
        IN  /\ n > 0
            /\ n * scan.result.score
                  = Min(n * One, SeqSum(f) + above * Hundredths(30))
            /\ scan.result.score \in 0..One

\* Two dark frames with skin-tone 0.59: mean 0.713 plus 0.3 is cut to 1.
C17_Witness ==
    /\ ScanCompleted
    /\ scan.frameAnalyses =
          <<[brightness |-> Hundredths(19), skinTone |-> Hundredths(59)],
            [brightness |-> Hundredths(19), skinTone |-> Hundredths(59)]>>
    /\ scan.result.score = One

\* C18: when no frame of a non-empty list scores above 0.5, flaggedFrames is
\* 0, the overall score is the mean of the frame scores and the result is
\* not flagged.
C18_NoFrameAboveHalf ==
    LET a == scan.frameAnalyses
        f == [k \in DOMAIN a |-> FrameScore(a[k])]
    IN  (ScanCompleted /\ \A k \in DOMAIN a : f[k] <= Hundredths(50)) =>
            /\ scan.result.flaggedFrames = 0
            /\ Len(a) * scan.result.score = SeqSum(f)
            /\ ~scan.result.flagged

\* A dark frame (0.3) and a frame with skin-tone 0.59 (0.413): mean 0.3565.
C18_Witness ==
    /\ ScanCompleted
    /\ scan.frameAnalyses =
          <<[brightness |-> Hundredths(19), skinTone |-> Hundredths(10)],
            [brightness |-> Hundredths(50), skinTone |-> Hundredths(59)]>>
    /\ 2 * scan.result.score = Hundredths(30) + (7 * Hundredths(59)) \div 10

\* C19: when extractFrames yields no frame, the call returns (it does not
\* raise) a result that is not flagged, of level low and confidence 0, which
\* processVideo finalizes as safe.
C19_ZeroFrames ==
    /\ scan.pc = "analyze" => Len(scan.framePaths) > 0
    /\ (scan.pc = "returned" /\ scan.exit # "error" /\ Len(scan.framePaths) = 0) =>
          /\ scan.exit = "zero"
          /\ ~scan.result.flagged
          /\ scan.result.level = "low"
          /\ scan.result.confidence = 0
          /\ FinalStatus(scan.result.flagged) = "safe"

\* A file of duration 0 was scanned and the call returned early.
C19_Witness ==
    /\ scan.pc = "returned"
    /\ scan.exit = "zero"
    /\ scan.duration = 0

(***************************************************************************)
(* One streamVideo request                                                 *)
(*                                                                         *)
(* Header values are sequences of one-character strings.  A file of size n *)
(* holds the bytes at offsets 0..n-1, and a body is the sequence of the    *)
(* offsets of the bytes sent.                                              *)
(***************************************************************************)

\* Largest file size (in bytes) considered; sizes above 9 bring two-digit
\* numbers into the headers.
MaxFileSize == 11

Digit == <<"0", "1", "2", "3", "4", "5", "6", "7", "8", "9">>

DigitChars == Range(Digit)

DigitValue(c) == CHOOSE d \in 0..9 : Digit[d + 1] = c

\* `${n}` for a non-negative integer n.
RECURSIVE Decimal(_)
Decimal(n) ==
    IF n < 10
    THEN <<Digit[n + 1]>>
    ELSE Decimal(n \div 10) \o <<Digit[(n % 10) + 1]>>

\* parseInt(str, 10) for a non-empty run of digits.
RECURSIVE ParseInt(_)
ParseInt(str) ==
    IF Len(str) = 1
    THEN DigitValue(str[1])
    ELSE 10 * ParseInt(SubSeq(str, 1, Len(str) - 1)) + DigitValue(str[Len(str)])

BytesEq == <<"b", "y", "t", "e", "s", "=">>

\* The Range header a client writes for the span start..end.
RangeHeader(start, end) ==
    BytesEq \o Decimal(start) \o <<"-">> \o Decimal(end)

\* The Range header a client writes for the span from start to the file end.
OpenRangeHeader(start) == BytesEq \o Decimal(start) \o <<"-">>

\* No Range header (req.headers.range is undefined).
NoHeader == <<>>

\* The Range headers considered: none, every start-end and start- pair of
\* offsets up to just past the largest file, a suffix range, a multi-range
\* list and a header with text around the range.
Headers ==
    {NoHeader}
    \cup {RangeHeader(a, b) : a, b \in 0..(MaxFileSize + 1)}
    \cup {OpenRangeHeader(a) : a \in 0..(MaxFileSize + 1)}
    \cup {BytesEq \o <<"-", "5">>,
          RangeHeader(0, 1) \o <<",">> \o Decimal(3) \o <<"-">> \o Decimal(4),
          <<"x">> \o RangeHeader(0, 1) \o <<"x">>}

\* Length of the run of digits of h that starts at position i.
RECURSIVE DigitRun(_, _)
DigitRun(h, i) ==
    IF i <= Len(h) /\ h[i] \in DigitChars THEN 1 + DigitRun(h, i + 1) ELSE 0

\* /bytes=(\d+)-(\d*)/ matches h at position i.
MatchAt(h, i) ==
    /\ i + 5 <= Len(h)
    /\ SubSeq(h, i, i + 5) = BytesEq
    /\ DigitRun(h, i + 6) >= 1
    /\ i + 6 + DigitRun(h, i + 6) <= Len(h)
    /\ h[i + 6 + DigitRun(h, i + 6)] = "-"

\* rangeHeader.match(/bytes=(\d+)-(\d*)/): the leftmost match with its two
\* groups, or no match.
RangeMatch(h) ==
    IF \E i \in 1..Len(h) : MatchAt(h, i)
    THEN LET i == CHOOSE k \in 1..Len(h) :
                      MatchAt(h, k) /\ \A j \in 1..(k - 1) : ~MatchAt(h, j)
             n1 == DigitRun(h, i + 6)
             n2 == DigitRun(h, i + 7 + n1)
         IN  [matched |-> TRUE,
              g1 |-> SubSeq(h, i + 6, i + 5 + n1),
              g2 |-> SubSeq(h, i + 7 + n1, i + 6 + n1 + n2)]
    ELSE [matched |-> FALSE, g1 |-> <<>>, g2 |-> <<>>]

\* parseRange returned null.
NullRange == [valid |-> FALSE, start |-> 0, end |-> 0, chunkSize |-> 0]

parseRange_ExclusiveEnd(rangeHeader, fileSize) ==
    IF rangeHeader = NoHeader
    THEN NullRange
    ELSE LET matches == RangeMatch(rangeHeader) IN
         IF ~matches.matched
         THEN NullRange
         ELSE LET start == ParseInt(matches.g1)
                  end == IF matches.g2 # <<>> THEN ParseInt(matches.g2)
                         ELSE fileSize - 1
              IN  IF start > end \/ start < 0 \/ end >= fileSize
                  THEN NullRange
                  ELSE [valid |-> TRUE, start |-> start,
                        end |-> Min(end, fileSize - 1),
                        chunkSize |-> Min(end, fileSize - 1) - start]

parseRange_ClampEnd(rangeHeader, fileSize) ==
    IF rangeHeader = NoHeader
    THEN NullRange
    ELSE LET matches == RangeMatch(rangeHeader) IN
         IF ~matches.matched
         THEN NullRange
         ELSE LET start == ParseInt(matches.g1)
                  end == IF matches.g2 # <<>> THEN ParseInt(matches.g2)
                         ELSE fileSize - 1
              IN  IF start > end \/ start < 0 \/ start >= fileSize
                  THEN NullRange
                  ELSE [valid |-> TRUE, start |-> start,
                        end |-> Min(end, fileSize - 1),
                        chunkSize |-> Min(end, fileSize - 1) - start + 1]

parseRange(rangeHeader, fileSize) ==
    IF rangeHeader = NoHeader
    THEN NullRange
    ELSE LET matches == RangeMatch(rangeHeader) IN
         IF ~matches.matched
         THEN NullRange
         ELSE LET start == ParseInt(matches.g1)
                  end == IF matches.g2 # <<>> THEN ParseInt(matches.g2)
                         ELSE fileSize - 1
              IN  IF start > end \/ start < 0 \/ end >= fileSize
                  THEN NullRange
                  ELSE [valid |-> TRUE, start |-> start,
                        end |-> Min(end, fileSize - 1),
                        chunkSize |-> Min(end, fileSize - 1) - start + 1]

\* The bytes fs.createReadStream(filePath, { start, end }) delivers from a
\* file of the given size: the offsets start..end that the file has.
ReadStream(fileSize, start, end) ==
    [k \in 1..(Min(end, fileSize - 1) - start + 1) |-> start + k - 1]

\* `bytes ${start}-${end}/${fileSize}`; fileSize - 1 is -1 for an empty file.
ContentRange(start, end, fileSize) ==
    <<"b", "y", "t", "e", "s", " ">> \o Decimal(start) \o <<"-">>
        \o (IF end < 0 THEN <<"-">> \o Decimal(-end) ELSE Decimal(end))
        \o <<"/">> \o Decimal(fileSize)

\* A response of the error middleware: the status code of the thrown error.
ErrorResponse(statusCode) ==
    [status |-> statusCode, acceptRanges |-> <<>>, contentLength |-> -1,
     contentRange |-> <<>>, body |-> <<>>]

\* The response streamVideo writes for a file of the given size.
StreamResponse(rangeHeader, fileSize) ==
    LET range == parseRange(rangeHeader, fileSize) IN
        IF ~range.valid
        THEN [status |-> 200,
              acceptRanges |-> <<"b", "y", "t", "e", "s">>,
              contentLength |-> fileSize,
              contentRange |-> ContentRange(0, fileSize - 1, fileSize),
              body |-> ReadStream(fileSize, 0, fileSize - 1)]
        ELSE [status |-> 206,
              acceptRanges |-> <<"b", "y", "t", "e", "s">>,
              contentLength |-> range.chunkSize,
              contentRange |-> ContentRange(range.start, range.end, fileSize),
              body |-> ReadStream(fileSize, range.start, range.end)]

\* The tenants considered.
Tenants == {"t1", "t2"}

\* The credentials a request may carry in ?token= or after 'Bearer ': none,
\* a string jwt.verify rejects, or a token signed for a user of a tenant.
NoToken == <<>>

BadToken == <<"bad">>

SignedToken(tenantId) == <<"jwt", tenantId>>

Tokens == {NoToken, BadToken} \cup {SignedToken(t) : t \in Tenants}

\* verifyToken returned null.
NotDecoded == [ok |-> FALSE, tenantId |-> "none"]

\* verifyToken: the query token when there is one, else the bearer token;
\* null when there is none or jwt.verify throws, else the decoded payload.
verifyToken(query, bearer) ==
    LET token == IF query # NoToken THEN query ELSE bearer IN
        IF token = NoToken
        THEN NotDecoded
        ELSE IF Len(token) = 2 /\ token[1] = "jwt"
        THEN [ok |-> TRUE, tenantId |-> token[2]]
        ELSE NotDecoded

\* What the store holds under the requested id: nothing, or a record with
\* its tenant, status and processedFilePath (set or not).
NoDoc ==
    [exists |-> FALSE, tenantId |-> "none", status |-> "none",
     processedFilePath |-> FALSE]

StoredDocs ==
    {NoDoc} \cup
    {[exists |-> TRUE, tenantId |-> t, status |-> s, processedFilePath |-> p] :
        t \in Tenants, s \in Statuses, p \in BOOLEAN}

\* Which of the record's files are on disk.
DiskCases ==
    {[NoFiles EXCEPT !.original = o, !.processed = p] : o, p \in BOOLEAN}

tenantQuery_AnyTenant(rec, tenantId) == IF rec.exists THEN rec ELSE NoDoc

\* Video.findOne(tenantQuery(tenantId, { _id: videoId })): the record when it
\* exists and carries the tenant of the token, else null.
tenantQuery(rec, tenantId) ==
    IF rec.exists /\ rec.tenantId = tenantId THEN rec ELSE NoDoc

NotReady_UploadedOnly(status) == status = "uploaded"

\* The status test of streamVideo (line 219).
NotReady(status) == status \in {"uploaded", "processing"}

\* video.processedFilePath || video.originalFilePath, then existsSync on that
\* one path: the file the handlers open, "none" when it is not on disk.
\* (originalFilePath is set on every record from its creation.)
PickFile(video, f) ==
    LET filePath == IF video.processedFilePath THEN "processed" ELSE "original"
    IN  IF f[filePath] THEN filePath ELSE "none"

\* streamVideo from the point where Video.findOne has resolved with video.
StreamVideoResponse(video, f, fileSize, rangeHeader) ==
    IF ~video.exists
    THEN ErrorResponse(404)
    ELSE IF NotReady(video.status)
    THEN ErrorResponse(403)
    ELSE IF PickFile(video, f) = "none"
    THEN ErrorResponse(404)
    ELSE StreamResponse(rangeHeader, fileSize)

\* getStreamInfo from the point where Video.findOne has resolved with video.
StreamInfoResponse(video, f, fileSize) ==
    IF ~video.exists
    THEN ErrorResponse(404)
    ELSE IF PickFile(video, f) = "none"
    THEN ErrorResponse(404)
    ELSE [status |-> 200,
          acceptRanges |-> <<"b", "y", "t", "e", "s">>,
          contentLength |-> fileSize,
          contentRange |-> <<>>,
          body |-> <<>>]

\* A request for /stream/:videoId has arrived: GET runs streamVideo, HEAD
\* getStreamInfo.  record, disk, fileSize and range hold what the handler
\* has read of the store, the disk and the Range header.
NewRequest(method, query, bearer) ==
    [pc |-> "request", method |-> method, query |-> query, bearer |-> bearer,
     tenantId |-> "none", videoId |-> Null, record |-> NoDoc, disk |-> NoFiles,
     range |-> NoHeader, fileSize |-> 0, videoStatus |-> "none",
     file |-> "none", response |-> ErrorResponse(0)]

StreamInit ==
    /\ QueueInit
    /\ NoMoreCalls
    /\ progressRun = NoCall
    /\ scan = NoCall
    /\ stream \in {NewRequest(m, q, b) :
                      m \in {"GET", "HEAD"}, q \in Tokens, b \in Tokens}

\* Both handlers up to their await: verifyToken; without a decoded token
\* the request is answered 401, otherwise Video.findOne is issued.
Stream_VerifyToken ==
    /\ stream.pc = "request"
    /\ LET decoded == verifyToken(stream.query, stream.bearer) IN
         stream' = IF decoded.ok
                   THEN [stream EXCEPT !.pc = "find",
                                       !.tenantId = decoded.tenantId]
                   ELSE [stream EXCEPT !.pc = "responded",
                                       !.response = ErrorResponse(401)]
    /\ UNCHANGED <<queueVars, progressRun, scan, moreCalls>>

\* Video.findOne resolves with null (no record under the id, or a record of
\* another tenant): 404 from either handler.
Stream_NotFound(rec) ==
    /\ stream.pc = "find"
    /\ ~tenantQuery(rec, stream.tenantId).exists
    /\ stream' = [stream EXCEPT !.pc = "responded",
                                !.record = rec,
                                !.response = ErrorResponse(404)]
    /\ UNCHANGED <<queueVars, progressRun, scan, moreCalls>>

\* streamVideo: Video.findOne resolves with the document; the status gate,
\* the choice of the file, its size (statSync), the Range header and the
\* response; the size and the header are drawn from the given sets.  What
\* the handler does not get to read stays at its initial value.
Stream_Respond(rec, f, fileSizes, rangeHeaders) ==
    /\ stream.pc = "find"
    /\ stream.method = "GET"
    /\ LET video == tenantQuery(rec, stream.tenantId)
           served == ~NotReady(video.status)
           file == IF served THEN PickFile(video, f) ELSE "none"
       IN  /\ video.exists
           /\ \E fileSize \in IF file = "none" THEN {0} ELSE fileSizes,
                 rangeHeader \in IF file = "none" THEN {NoHeader}
                                 ELSE rangeHeaders :
                stream' =
                  [stream EXCEPT
                      !.pc = "responded",
                      !.record = rec,
                      !.disk = IF served THEN f ELSE NoFiles,
                      !.range = rangeHeader,
                      !.fileSize = fileSize,
                      !.videoStatus = video.status,
                      !.file = file,
                      !.response =
                          StreamVideoResponse(video, f, fileSize, rangeHeader)]
    /\ UNCHANGED <<queueVars, progressRun, scan, moreCalls>>

\* getStreamInfo: Video.findOne resolves with the document; the choice of
\* the file, its size and the header-only response.
StreamInfo_Respond(rec, f) ==
    /\ stream.pc = "find"
    /\ stream.method = "HEAD"
    /\ LET video == tenantQuery(rec, stream.tenantId)
           file == PickFile(video, f)
       IN  /\ video.exists
           /\ \E fileSize \in IF file = "none" THEN {0} ELSE 0..MaxFileSize :
                stream' =
                  [stream EXCEPT
                      !.pc = "responded",
                      !.record = rec,
                      !.disk = f,
                      !.fileSize = fileSize,
                      !.videoStatus = video.status,
                      !.file = file,
                      !.response = StreamInfoResponse(video, f, fileSize)]
    /\ UNCHANGED <<queueVars, progressRun, scan, moreCalls>>

StreamNext ==
    \/ Stream_VerifyToken
    \/ \E rec \in StoredDocs : Stream_NotFound(rec)
    \/ \E rec \in StoredDocs, f \in DiskCases :
          Stream_Respond(rec, f, 0..MaxFileSize, Headers)
    \/ \E rec \in StoredDocs, f \in DiskCases : StreamInfo_Respond(rec, f)

\* One request for /stream/:videoId, for every credential, stored record,
\* disk state, file size and Range header considered.
StreamSpec == StreamInit /\ [][StreamNext]_vars

\* C20: a served request whose Range header is bytes=start-end with
\* 0 <= start <= end < fileSize (or bytes=start- , meaning end = fileSize-1)
\* is answered 206 with Content-Range 'bytes start-end/fileSize',
\* Accept-Ranges 'bytes', Content-Length end-start+1 and a body that is
\* exactly the bytes start..end.
C20_ValidRange ==
    \A a, b \in 0..MaxFileSize :
        (/\ stream.pc = "responded"
         /\ stream.response.status \in {200, 206}
         /\ a <= b
         /\ b < stream.fileSize
         /\ \/ stream.range = RangeHeader(a, b)
            \/ stream.range = OpenRangeHeader(a) /\ b = stream.fileSize - 1) =>
            LET r == stream.response IN
                /\ r.status = 206
                /\ r.contentRange =
                      <<"b", "y", "t", "e", "s", " ">> \o Decimal(a) \o <<"-">>
                         \o Decimal(b) \o <<"/">> \o Decimal(stream.fileSize)
                /\ r.acceptRanges = <<"b", "y", "t", "e", "s">>
                /\ r.contentLength = b - a + 1
                /\ r.body = [k \in 1..(b - a + 1) |-> a + k - 1]
                /\ Len(r.body) = r.contentLength

\* 'bytes=2-10' on a file of 11 bytes was answered 206 with 9 bytes.
C20_Witness ==
    /\ stream.pc = "responded"
    /\ stream.range = RangeHeader(2, 10)
    /\ stream.fileSize = 11
    /\ stream.response.status = 206
    /\ stream.response.contentLength = 9

\* A Range header that is to be ignored for a file of n bytes: a start-end
\* or start- span with start > end, end >= n or start >= n, or a header the
\* pattern does not match (a suffix range).
IgnoredRange(h, n) ==
    \/ h = BytesEq \o <<"-", "5">>
    \/ \E a, b \in 0..(MaxFileSize + 1) :
          \/ h = RangeHeader(a, b) /\ (a > b \/ b >= n \/ a >= n)
          \/ h = OpenRangeHeader(a) /\ a >= n

\* C21: a served request without a Range header, or with one that yields
\* start > end, end >= fileSize or start >= fileSize, or that the pattern
\* does not match, is answered 200 with Content-Range
\* 'bytes 0-(fileSize-1)/fileSize', Content-Length fileSize and the full
\* body; no Range header turns a served request into a 4xx answer.
C21_InvalidRangeFallback ==
    (/\ stream.pc = "responded"
     /\ stream.method = "GET"
     /\ stream.file # "none") =>
        LET r == stream.response
            n == stream.fileSize
        IN  /\ r.status \in {200, 206}
            /\ (stream.range = NoHeader \/ IgnoredRange(stream.range, n)) =>
                  /\ r.status = 200
                  /\ r.contentRange =
                        <<"b", "y", "t", "e", "s", " ", "0", "-">>
                           \o (IF n = 0 THEN <<"-", "1">> ELSE Decimal(n - 1))
                           \o <<"/">> \o Decimal(n)
                  /\ r.contentLength = n
                  /\ r.body = [k \in 1..n |-> k - 1]

\* 'bytes=5-12' on a file of 11 bytes was answered 200 with all 11 bytes.
C21_Witness ==
    /\ stream.pc = "responded"
    /\ stream.range = RangeHeader(5, 12)
    /\ stream.fileSize = 11
    /\ stream.response.status = 200
    /\ Len(stream.response.body) = 11

\* The outcome classes of a streaming response.
OutcomeClass(r) ==
    CASE r.status \in {200, 206} -> "success"
      [] r.status = 401 -> "unauthorized"
      [] r.status = 403 -> "not-ready"
      [] r.status = 404 -> "not-found"
      [] OTHER -> "error"

\* C23: for every credential, stored record and disk state, getStreamInfo
\* answers with the outcome class (401, not-found, not-ready or success)
\* that streamVideo gives to the same request without a Range header, and
\* sends no body.
C23_HeadSameOutcome ==
    (stream.pc = "responded" /\ stream.method = "HEAD") =>
        /\ stream.response.body = <<>>
        /\ OutcomeClass(stream.response) =
              OutcomeClass(
                 IF ~verifyToken(stream.query, stream.bearer).ok
                 THEN ErrorResponse(401)
                 ELSE StreamVideoResponse(
                         tenantQuery(stream.record, stream.tenantId),
                         stream.disk, stream.fileSize, NoHeader))

\* C24: a request that passes the status gate is served from the derivative
\* when the record names it and it is on disk, from the original when the
\* named derivative is missing and the original is on disk, and answered
\* not-found only when neither the named derivative nor the original is on
\* disk.
C24_FileSelection ==
    (/\ stream.pc = "responded"
     /\ stream.method = "GET"
     /\ tenantQuery(stream.record, stream.tenantId).exists
     /\ ~NotReady(stream.videoStatus)) =>
        LET d == stream.disk
            r == stream.response
        IN  /\ (stream.record.processedFilePath /\ d.processed) =>
                  r.status \in {200, 206} /\ stream.file = "processed"
            /\ (stream.record.processedFilePath /\ ~d.processed /\ d.original) =>
                  r.status \in {200, 206} /\ stream.file = "original"
            /\ r.status = 404 =>
                  /\ ~(stream.record.processedFilePath /\ d.processed)
                  /\ ~d.original

IsSigned(token) == \E t \in Tenants : token = SignedToken(t)

\* C25: a request with no valid credential in the query parameter and none
\* in the bearer header is answered 401 without headers or bytes of any
\* record; a request with a valid credential of tenant T for a record of
\* another tenant gets exactly the answer given for an id that names no
\* record, without headers or bytes of the record.
C25_AccessControl ==
    stream.pc = "responded" =>
        /\ (~IsSigned(stream.query) /\ ~IsSigned(stream.bearer)) =>
              stream.response = ErrorResponse(401)
        /\ (/\ stream.tenantId \in Tenants
            /\ stream.record.exists
            /\ stream.record.tenantId # stream.tenantId) =>
              /\ stream.response = ErrorResponse(404)
              /\ stream.response =
                    IF stream.method = "GET"
                    THEN StreamVideoResponse(NoDoc, NoFiles, 0, NoHeader)
                    ELSE StreamInfoResponse(NoDoc, NoFiles, 0)
              /\ stream.file = "none"

\* A token of tenant t1 was presented for a record of tenant t2 that is
\* ready and on disk, and the answer was 404.
C25_Witness ==
    /\ stream.pc = "responded"
    /\ stream.tenantId = "t1"
    /\ stream.record.exists
    /\ stream.record.tenantId = "t2"
    /\ stream.record.status = "ready"
    /\ stream.response.status = 404

(***************************************************************************)
(* Stream requests served while the queue works                            *)
(***************************************************************************)

\* The record stored under id v as the streaming handlers read it; the
\* uploads of the queue model all belong to tenant t1.
StoredDoc(v) ==
    IF store[v].exists
    THEN [exists |-> TRUE, tenantId |-> "t1", status |-> store[v].status,
          processedFilePath |-> store[v].processedFilePath]
    ELSE NoDoc

\* A GET /stream/v request of a user of tenant t1 arrives.
Serve_Request(v) ==
    /\ stream.pc \in {"none", "responded"}
    /\ stream' = [NewRequest("GET", SignedToken("t1"), NoToken)
                     EXCEPT !.videoId = v]
    /\ UNCHANGED <<queueVars, progressRun, scan, moreCalls>>

\* Video.findOne resolves against the store as it is now; the file checks
\* see the disk as it is now.  Files hold one byte.
Serve_FindVideo(v) ==
    /\ stream.pc = "find"
    /\ stream.videoId = v
    /\ \/ Stream_NotFound(StoredDoc(v))
       \/ Stream_Respond(StoredDoc(v), files[v], {1}, {NoHeader})

ServeNext ==
    \/ Next
    \/ \E v \in VideoIds : Serve_Request(v)
    \/ Stream_VerifyToken
    \/ \E v \in VideoIds : Serve_FindVideo(v)

\* As Spec, with streaming requests served in between the steps of the
\* queue, the pipeline and the promotion.
ServeSpec == Init /\ [][ServeNext]_vars

\* C22: a request with a valid credential that resolves a record is
\* answered with the not-ready error, without a file being opened or a byte
\* sent, exactly when the record's status at that moment is uploaded or
\* processing; a record that is safe, flagged, ready or failed at that
\* moment is served, also while the queue is at work.
C22_NotReadyGate ==
    [][\A v \in VideoIds :
          (/\ stream.pc = "find"
           /\ stream.videoId = v
           /\ stream'.pc = "responded"
           /\ store[v].exists) =>
              /\ (stream'.response.status = 403) <=>
                    (store[v].status \in {"uploaded", "processing"})
              /\ stream'.response.status = 403 =>
                    /\ stream'.response = ErrorResponse(403)
                    /\ stream'.file = "none"
              /\ store[v].status \in {"safe", "flagged", "ready", "failed"} =>
                    /\ stream'.response.status = 200
                    /\ stream'.file # "none"
                    /\ Len(stream'.response.body) = stream'.fileSize]_vars

\* A request was answered not-ready while the thumbnail of the requested
\* video was being generated.
C22_Witness ==
    /\ stream.pc = "responded"
    /\ stream.response.status = 403
    /\ stream.videoStatus = "processing"
    /\ stream.videoId \in VideoIds
    /\ job[stream.videoId].pc = "pv_metadata"

(***************************************************************************)
(* The events of one job (processNext and progress.socket.js)              *)
(*                                                                         *)
(* notify.sent is the transcript of the messages handed to the rooms of    *)
(* the /progress namespace; each carries the number of the update it       *)
(* belongs to.                                                             *)
(***************************************************************************)

\* The users considered.
Users == {"u1", "u2", "u3"}

\* `user:${userId}`
UserRoom(userId) == <<"user", ":", userId>>

\* `video:${videoId}`
VideoRoom(videoId) == <<"video", ":">> \o Decimal(videoId)

\* emitProgressToUser: event 'progress' to the room of the user.
emitProgressToUser(userId, videoId, n) ==
    [room |-> UserRoom(userId), event |-> "progress", videoId |-> videoId,
     update |-> n]

\* emitProgress: event 'processing-progress' to the room of the video.
emitProgress(videoId, n) ==
    [room |-> VideoRoom(videoId), event |-> "processing-progress",
     videoId |-> videoId, update |-> n]

\* emitStatusUpdate: event 'status-update' to the room of the video; none
\* of the data objects spread into the payload carries a videoId.
emitStatusUpdate(videoId, n) ==
    [room |-> VideoRoom(videoId), event |-> "status-update",
     videoId |-> videoId, update |-> n]

\* if (userId) emitProgressToUser(...): the messages this statement sends.
ToUser(userId, msg) == IF userId # "none" THEN <<msg>> ELSE <<>>

\* A status update of the job: emitStatusUpdate to the video's room, then
\* emitProgressToUser when a userId is at hand.
StatusUpdate(n, userId) ==
    [n EXCEPT
        !.updates = n.updates + 1,
        !.sent = n.sent \o <<emitStatusUpdate(n.videoId, n.updates + 1)>>
                   \o ToUser(userId,
                         emitProgressToUser(userId, n.videoId, n.updates + 1))]

\* A progress update of the job (progressCallback): emitProgress to the
\* video's room, then emitProgressToUser when a userId is at hand.
ProgressUpdate(n, userId) ==
    [n EXCEPT
        !.updates = n.updates + 1,
        !.sent = n.sent \o <<emitProgress(n.videoId, n.updates + 1)>>
                   \o ToUser(userId,
                         emitProgressToUser(userId, n.videoId, n.updates + 1))]

\* processNext has shifted the entry of video videoId, uploaded by owner.
NewNotify(videoId, owner) ==
    [pc |-> "find", videoId |-> videoId, owner |-> owner, userId |-> "none",
     callbacks |-> 0, updates |-> 0, sent |-> <<>>]

NotifyInit ==
    /\ QueueInit
    /\ progressRun = NoCall
    /\ scan = NoCall
    /\ stream = NoCall
    /\ upload = NoCall
    /\ login = NoCall
    /\ NoLateCalls
    /\ notify \in {NewNotify(v, u) : v \in VideoIds, u \in Users}

NotifyFrame ==
    <<queueVars, progressRun, scan, stream, upload, login, lateCalls>>

\* Video.findById resolves (with the record, or with null when it has been
\* deleted); userId = video?.uploadedBy?.toString(); the 'processing'
\* update is emitted and processVideo is invoked.
Notify_FindVideo(found) ==
    /\ notify.pc = "find"
    /\ LET userId == IF found THEN notify.owner ELSE "none" IN
         notify' = [StatusUpdate(notify, userId) EXCEPT
                       !.pc = "processing", !.userId = userId]
    /\ UNCHANGED NotifyFrame

\* processVideo calls progressCallback (it does so only after it has found
\* the record itself).
Notify_Progress ==
    /\ notify.pc = "processing"
    /\ notify.userId # "none"
    /\ notify.callbacks < MaxProgressEvents
    /\ notify' = [ProgressUpdate(notify, notify.userId) EXCEPT
                     !.callbacks = notify.callbacks + 1]
    /\ UNCHANGED NotifyFrame

\* processVideo resolves: the final status update is emitted and the timer
\* of the 'ready' update is set.
Notify_Success ==
    /\ notify.pc = "processing"
    /\ notify.userId # "none"
    /\ notify' = [StatusUpdate(notify, notify.userId) EXCEPT !.pc = "timer"]
    /\ UNCHANGED NotifyFrame

\* The timer fires: the 'ready' update.
Notify_Ready ==
    /\ notify.pc = "timer"
    /\ notify' = [StatusUpdate(notify, notify.userId) EXCEPT !.pc = "done"]
    /\ UNCHANGED NotifyFrame

\* processVideo rejects: the catch block looks the record up again (found
\* or, when it has been deleted, null) and emits the 'failed' update with
\* the userId of that lookup.
Notify_Failure(found) ==
    /\ notify.pc = "processing"
    /\ notify.userId = "none" => ~found
    /\ LET userId == IF found THEN notify.owner ELSE "none" IN
         notify' = [StatusUpdate(notify, userId) EXCEPT !.pc = "done"]
    /\ UNCHANGED NotifyFrame

NotifyNext ==
    \/ \E found \in BOOLEAN : Notify_FindVideo(found)
    \/ Notify_Progress
    \/ Notify_Success
    \/ Notify_Ready
    \/ \E found \in BOOLEAN : Notify_Failure(found)

\* The events of one job, for every video id and owner, with the record
\* present or deleted at the two lookups.
NotifySpec == NotifyInit /\ [][NotifyNext]_vars

\* C26: every update the queue emits for media M of user U is sent, with
\* mediaId M, to the per-user group of U and to the per-resource group of
\* M; no message carrying M goes to the group of another user or of
\* another media.
C26_DualChannel ==
    notify.pc # "none" =>
        /\ \A n \in 1..notify.updates :
              /\ \E i \in DOMAIN notify.sent :
                    /\ notify.sent[i].update = n
                    /\ notify.sent[i].videoId = notify.videoId
                    /\ notify.sent[i].room = UserRoom(notify.owner)
              /\ \E i \in DOMAIN notify.sent :
                    /\ notify.sent[i].update = n
                    /\ notify.sent[i].videoId = notify.videoId
                    /\ notify.sent[i].room = VideoRoom(notify.videoId)
        /\ \A i \in DOMAIN notify.sent :
              /\ notify.sent[i].videoId = notify.videoId
              /\ notify.sent[i].room \in
                    {UserRoom(notify.owner), VideoRoom(notify.videoId)}

(***************************************************************************)
(* uploadVideo, step by step                                               *)
(*                                                                         *)
(* upload[r] follows request r of POST /api/videos/upload through the      *)
(* middleware chain, the handler's awaits and its catch block.  The queue  *)
(* is not worked off here, so every addToQueue call stays visible in the   *)
(* queue or in the job it started.                                         *)
(***************************************************************************)

\* Number of upload requests followed.
MaxUploads == 2

Uploads == 1..MaxUploads

NoUpload ==
    [pc |-> "none", authenticated |-> FALSE, hasFile |-> FALSE,
     videoId |-> Null, tempFile |-> FALSE, enqueues |-> 0, response |-> 0]

UploadInit ==
    /\ QueueInit
    /\ progressRun = NoCall
    /\ scan = NoCall
    /\ stream = NoCall
    /\ notify = NoCall
    /\ login = NoCall
    /\ NoLateCalls
    /\ upload = [r \in Uploads |-> NoUpload]

UploadFrame == <<progressRun, scan, stream, notify, login, lateCalls>>

\* The request passes authenticate (401 without a valid token) and
\* uploadSingle (which lands the file, when one is attached, at a temporary
\* path); uploadVideo throws ValidationError (400) without a file, else it
\* issues Organization.findOne.
Up_Arrive(r, authenticated, hasFile) ==
    /\ upload[r].pc = "none"
    /\ \A q \in 1..(r - 1) : upload[q].pc # "none"
    /\ upload' = [upload EXCEPT ![r] =
          [NoUpload EXCEPT
              !.authenticated = authenticated,
              !.hasFile = hasFile,
              !.tempFile = authenticated /\ hasFile,
              !.pc = IF authenticated /\ hasFile THEN "org" ELSE "done",
              !.response = IF ~authenticated THEN 401
                           ELSE IF ~hasFile THEN 400 ELSE 0]]
    /\ UNCHANGED <<queueVars, UploadFrame>>

\* Organization.findOne resolves; Video.create is issued.
Up_Organization(r) ==
    /\ upload[r].pc = "org"
    /\ upload' = [upload EXCEPT ![r].pc = "create"]
    /\ UNCHANGED <<queueVars, UploadFrame>>

\* Video.create settles: the record exists with status 'uploaded' and the
\* temporary path, and the rename is issued; or validation rejects and the
\* catch block starts with cleanupUploadedFile.
Up_Create(r, ok) ==
    /\ upload[r].pc = "create"
    /\ nextVideoId <= MaxVideos
    /\ IF ok
       THEN /\ store' = [store EXCEPT ![nextVideoId] = NewRecord]
            /\ nextVideoId' = nextVideoId + 1
            /\ upload' = [upload EXCEPT ![r].pc = "rename",
                                        ![r].videoId = nextVideoId]
       ELSE /\ upload' = [upload EXCEPT ![r].pc = "cleanup_file"]
            /\ UNCHANGED <<store, nextVideoId>>
    /\ UNCHANGED <<files, processingQueue, isProcessing, currentVideoId,
                   immediates, job, promo, del, updates, started>>
    /\ UNCHANGED UploadFrame

\* renameToSecurePath settles: the file is at {videoId}_original and
\* video.save() is issued; or fs.rename fails and the catch block starts.
Up_Rename(r, ok) ==
    /\ upload[r].pc = "rename"
    /\ IF ok
       THEN /\ files' = [files EXCEPT ![upload[r].videoId].original = TRUE]
            /\ upload' = [upload EXCEPT ![r].pc = "save",
                                        ![r].tempFile = FALSE]
       ELSE /\ upload' = [upload EXCEPT ![r].pc = "cleanup_file"]
            /\ UNCHANGED files
    /\ UNCHANGED <<store, processingQueue, isProcessing, currentVideoId,
                   immediates, job, promo, del, nextVideoId, updates, started>>
    /\ UNCHANGED UploadFrame

\* video.save() of the secure paths resolves; the populate calls are issued.
Up_Save(r) ==
    /\ upload[r].pc = "save"
    /\ upload' = [upload EXCEPT ![r].pc = "populate"]
    /\ UNCHANGED <<queueVars, UploadFrame>>

\* The populate calls have resolved: addToQueue(videoId, io) and 201.
Up_Enqueue(r) ==
    /\ upload[r].pc = "populate"
    /\ addToQueue(upload[r].videoId)
    /\ upload' = [upload EXCEPT ![r].pc = "done",
                                ![r].enqueues = upload[r].enqueues + 1,
                                ![r].response = 201]
    /\ UNCHANGED <<store, files, immediates, promo, del, nextVideoId,
                   updates, started>>
    /\ UNCHANGED UploadFrame

\* catch: cleanupUploadedFile settles (an unlink error is dropped).  With a
\* record created, cleanupVideoRecord issues Video.findById; without one the
\* error is rethrown and answered (400 for a validation error).
Up_CleanupFile(r, unlinkOk) ==
    /\ upload[r].pc = "cleanup_file"
    /\ upload' = [upload EXCEPT
          ![r].tempFile = upload[r].tempFile /\ ~unlinkOk,
          ![r].pc = IF upload[r].videoId # Null THEN "cleanup_find" ELSE "done",
          ![r].response = IF upload[r].videoId # Null THEN 0 ELSE 400]
    /\ UNCHANGED <<queueVars, UploadFrame>>

\* cleanupVideoRecord: findById resolves with the record; deleteVideoFiles
\* is issued (it settles whatever the unlinks do).
Up_CleanupFind(r) ==
    /\ upload[r].pc = "cleanup_find"
    /\ upload' = [upload EXCEPT ![r].pc = "cleanup_delete"]
    /\ UNCHANGED <<queueVars, UploadFrame>>

\* cleanupVideoRecord: deleteVideoFiles has settled and findByIdAndDelete
\* resolves; the error is rethrown and answered 500 by the error handler.
Up_CleanupDelete(r, unlinkOk) ==
    /\ upload[r].pc = "cleanup_delete"
    /\ store' = [store EXCEPT ![upload[r].videoId] = NoRecord]
    /\ upload' = [upload EXCEPT ![r].pc = "done",
                                ![r].tempFile = upload[r].tempFile /\ ~unlinkOk,
                                ![r].response = 500]
    /\ UNCHANGED <<files, processingQueue, isProcessing, currentVideoId,
                   immediates, job, promo, del, nextVideoId, updates, started>>
    /\ UNCHANGED UploadFrame

UploadNext ==
    \/ \E r \in Uploads, authenticated, hasFile \in BOOLEAN :
          Up_Arrive(r, authenticated, hasFile)
    \/ \E r \in Uploads : Up_Organization(r)
    \/ \E r \in Uploads, ok \in BOOLEAN : Up_Create(r, ok)
    \/ \E r \in Uploads, ok \in BOOLEAN : Up_Rename(r, ok)
    \/ \E r \in Uploads : Up_Save(r)
    \/ \E r \in Uploads : Up_Enqueue(r)
    \/ \E r \in Uploads, unlinkOk \in BOOLEAN : Up_CleanupFile(r, unlinkOk)
    \/ \E r \in Uploads : Up_CleanupFind(r)
    \/ \E r \in Uploads, unlinkOk \in BOOLEAN : Up_CleanupDelete(r, unlinkOk)

\* Upload requests served side by side, each awaited operation of one
\* interleaved with those of the others.
UploadSpec == UploadInit /\ [][UploadNext]_vars

\* Number of addToQueue calls made for v that the queue state shows.
EnqueueCount(v) == Queued(v) + (IF job[v].pc = "pn_find" THEN 1 ELSE 0)

EventLoopFree(sc) == sc.pc \notin {"analyze", "catch"}

\* A GET /stream/v request arrives and its handler starts.
Turn_Request(v) ==
    /\ EventLoopFree(scan)
    /\ stream' = [NewRequest("GET", SignedToken("t1"), NoToken)
                     EXCEPT !.videoId = v]
    /\ UNCHANGED <<queueVars, progressRun, scan, moreCalls>>

\* The request's handler verifies the credential.
Turn_VerifyToken ==
    /\ EventLoopFree(scan)
    /\ Stream_VerifyToken

\* An upload completes and calls addToQueue.
Turn_Enqueue ==
    /\ EventLoopFree(scan)
    /\ UploadVideo
    /\ UNCHANGED callVars

ScanServeNext ==
    \/ Scan_Start
    \/ Scan_Probe
    \/ \E written \in SUBSET {(i - 1) * FRAME_INTERVAL : i \in 1..MaxFrames} :
          Scan_Screenshots(written)
    \/ \E b \in BrightnessSamples, s \in SkinToneSamples : Scan_AnalyzeFrame(b, s)
    \/ Scan_Catch
    \/ \E v \in VideoIds : Turn_Request(v)
    \/ Turn_VerifyToken
    \/ Turn_Enqueue

\* One call of processSensitivityCheck with stream requests and enqueue
\* calls arriving at the server meanwhile.
ScanServeSpec == ScanInit /\ [][ScanServeNext]_vars

\* The sensitivity stage is between its first and its last step.
InScanStage(sc) == sc.pc \in {"probe", "screenshots", "analyze"}

\* C28: while the sensitivity scan is in progress, the per-frame analysis
\* included, a stream request can be taken up and an enqueue call can be
\* served before the stage's next step.
C28_StagesDoNotBlock ==
    InScanStage(scan) =>
        /\ ENABLED (\E v \in VideoIds : Turn_Request(v))
        /\ nextVideoId <= MaxVideos => ENABLED Turn_Enqueue

(***************************************************************************)
(* POST /api/auth/login                                                    *)
(*                                                                         *)
(* The repository holds two login handlers: the one of                     *)
(* controllers/auth.controller.js, which routes/auth.routes.js mounts, and *)
(* a second auth controller with the same imports.  login follows one      *)
(* request through either of them.                                         *)
(***************************************************************************)

Emails == {"a@x", "b@x", "c@x"}
Passwords == {"pw1", "pw2"}

LoginHandlers == {"auth.controller", "second"}

\* The pre-save hook stores bcrypt.hash(password); bcrypt.compare hashes the
\* candidate with the stored salt and compares the results.
bcryptHash(password) == <<"$2b$", password>>

bcryptCompare(candidate, hash) == bcryptHash(candidate) = hash

\* generateToken: a JWT signed for the user.
generateToken(email) == <<"jwt", email>>

\* generateRefreshToken: a JWT of type 'refresh' signed for the user.
generateRefreshToken(email) == <<"jwt", email, "refresh">>

\* User.findOne({email}).select('+password'): the stored hash, or null.
FindUser(registered, email) ==
    IF \E p \in Passwords : <<email, p>> \in registered
    THEN bcryptHash(CHOOSE p \in Passwords : <<email, p>> \in registered)
    ELSE <<>>

\* The response of the error handler for an error with the given statusCode
\* (500 for an error without one).
LoginError(statusCode) ==
    [status |-> statusCode, success |-> FALSE, data |-> [token |-> NoToken],
     token |-> NoToken, refreshToken |-> NoToken]

\* The body of auth.controller's login: the token is in data.
LoginResponse(email) ==
    [status |-> 200, success |-> TRUE,
     data |-> [token |-> generateToken(email)],
     token |-> NoToken, refreshToken |-> NoToken]

\* The body of the second controller's login: the tokens are at top level
\* and there is no data object.
SecondLoginResponse(email) ==
    [status |-> 200, success |-> TRUE, data |-> [token |-> NoToken],
     token |-> generateToken(email),
     refreshToken |-> generateRefreshToken(email)]

\* A login request arrives.  registered holds the <<email, password>> pairs
\* that were registered, at most one per email.  hasMatchPassword tells
\* whether the User model bound to the second controller defines
\* matchPassword (models/User.js defines comparePassword only).
NewLogin(handler, registered, hasMatchPassword, email, password) ==
    [pc |-> "validate", handler |-> handler, registered |-> registered,
     hasMatchPassword |-> hasMatchPassword,
     email |-> email, password |-> password, user |-> <<>>,
     response |-> LoginError(0)]

Registrations ==
    {reg \in SUBSET (Emails \X Passwords) :
        \A e \in Emails : Cardinality({p \in Passwords : <<e, p>> \in reg}) <= 1}

LoginInit ==
    /\ QueueInit
    /\ progressRun = NoCall
    /\ scan = NoCall
    /\ stream = NoCall
    /\ notify = NoCall
    /\ upload = NoCall
    /\ NoLateCalls
    /\ login \in {NewLogin(h, reg, m, e, p) :
                     h \in LoginHandlers,
                     reg \in {r \in Registrations : "c@x" \notin {x[1] : x \in r}},
                     m \in BOOLEAN,
                     e \in Emails \cup {""},
                     p \in Passwords \cup {""}}

LoginFrame ==
    <<queueVars, progressRun, scan, stream, notify, upload, lateCalls>>

\* Input validation: a missing email or password is answered 400 (thrown
\* ValidationError in auth.controller, direct response in the second
\* controller); otherwise User.findOne is issued.
Login_Validate ==
    /\ login.pc = "validate"
    /\ login' = IF login.email = "" \/ login.password = ""
                THEN [login EXCEPT !.pc = "responded",
                                   !.response = LoginError(400)]
                ELSE [login EXCEPT !.pc = "find"]
    /\ UNCHANGED LoginFrame

\* User.findOne resolves: without a user the answer is 401; with one the
\* password comparison is issued.
Login_FindUser ==
    /\ login.pc = "find"
    /\ LET user == FindUser(login.registered, login.email) IN
          login' = IF user = <<>>
                   THEN [login EXCEPT !.pc = "responded",
                                      !.response = LoginError(401)]
                   ELSE [login EXCEPT !.pc = "compare", !.user = user]
    /\ UNCHANGED LoginFrame

\* auth.controller: comparePassword resolves; 401 on a mismatch, else the
\* token is generated and returned in data.
Login_ComparePassword ==
    /\ login.pc = "compare"
    /\ login.handler = "auth.controller"
    /\ login' = [login EXCEPT
          !.pc = "responded",
          !.response = IF bcryptCompare(login.password, login.user)
                       THEN LoginResponse(login.email)
                       ELSE LoginError(401)]
    /\ UNCHANGED LoginFrame

\* Second controller: user.matchPassword(password).  Without such a method
\* the call throws a TypeError, which is rethrown and answered 500; with it,
\* 401 on a mismatch, else the tokens are generated and returned at top
\* level.
Login_MatchPassword ==
    /\ login.pc = "compare"
    /\ login.handler = "second"
    /\ login' = [login EXCEPT
          !.pc = "responded",
          !.response = IF ~login.hasMatchPassword
                       THEN LoginError(500)
                       ELSE IF bcryptCompare(login.password, login.user)
                       THEN SecondLoginResponse(login.email)
                       ELSE LoginError(401)]
    /\ UNCHANGED LoginFrame

LoginNext ==
    \/ Login_Validate
    \/ Login_FindUser
    \/ Login_ComparePassword
    \/ Login_MatchPassword

\* One login request, for every set of registered users, every email and
\* password sent and either handler.
LoginSpec == LoginInit /\ [][LoginNext]_vars

\* The response of a login with the email and password of a registered user.
LoginOk(l) ==
    /\ l.response.status = 200
    /\ l.response.success
    /\ l.response.data.token = generateToken(l.email)

\* The response of a login with unknown or wrong credentials.
LoginRejected(l) ==
    /\ l.response.status = 401
    /\ ~l.response.success
    /\ l.response.data.token = NoToken
    /\ l.response.token = NoToken
    /\ l.response.refreshToken = NoToken

\* C29: a login with the email and password of a registered user is
\* answered 200 with success = true and the JWT at data.token; a login with
\* an unknown email or a wrong password is answered 401 with success = false
\* and no token.
C29_LoginResponse ==
    (login.pc = "responded" /\ login.email # "" /\ login.password # "") =>
        IF <<login.email, login.password>> \in login.registered
        THEN LoginOk(login)
        ELSE LoginRejected(login)

(***************************************************************************)
(* The delayed promotion under fair scheduling                             *)
(***************************************************************************)

\* As LiveSpec, with the process kept running: the promotion timer fires,
\* and its lookup and its save settle.
LivePromoSpec ==
    /\ LiveSpec
    /\ \A v \in VideoIds : WF_vars(Promo_Find(v))
    /\ \A v \in VideoIds : WF_vars(Promo_Save(v))

\* C30: with the records written by the pipeline and the promotion only, a
\* record that processVideo left safe or flagged eventually becomes ready,
\* and a record becomes ready only from safe or flagged.
C30_EventuallyReady ==
    /\ \A v \in VideoIds :
          (store[v].exists /\ store[v].status \in {"safe", "flagged"})
              ~> (store[v].status = "ready")
    /\ [][\A v \in VideoIds :
             (store'[v].status = "ready" /\ store[v].status # "ready")
                 => store[v].status \in {"safe", "flagged"}]_vars

\* The record of a flagged job (level high) and the record of a safe job
\* (level low) have both been promoted.
C30_Witness ==
    \E v, w \in VideoIds :
        /\ store[v].sensitivityLevel = "high"
        /\ store[w].sensitivityLevel = "low"
        /\ store[v].status = "ready" /\ promo[v] = "done"
        /\ store[w].status = "ready" /\ promo[w] = "done"

\* h is exactly bytes=<start>-<end>, end optional: the pattern matches at
\* the first character and its match is the whole header.
ExactRangeForm(h) ==
    /\ MatchAt(h, 1)
    /\ 7 + DigitRun(h, 7) + DigitRun(h, 8 + DigitRun(h, 7)) = Len(h)

\* C31: a served request whose Range header is not exactly of the form
\* bytes=<start>-<end> (text before or after the span, a multi-range list)
\* is answered 200 with the full body.
C31_ExactRangeForm ==
    (/\ stream.pc = "responded"
     /\ stream.method = "GET"
     /\ stream.file # "none"
     /\ stream.range # NoHeader
     /\ ~ExactRangeForm(stream.range)) =>
        /\ stream.response.status = 200
        /\ stream.response.contentLength = stream.fileSize
        /\ stream.response.body = [k \in 1..stream.fileSize |-> k - 1]

(***************************************************************************)
(* The frame loop with failing analysis commands                           *)
(*                                                                         *)
(* analyzeBrightness and analyzeSkinTone catch every error of their        *)
(* command themselves and resolve with a stand-in value, so the try/catch  *)
(* of the frame loop never sees a throw.  failedFrames records the frames  *)
(* whose commands failed.                                                  *)
(***************************************************************************)

\* analyzeBrightness with a failed command: 0.4 + Math.random() * 0.2 when
\* statSync works, 0.5 when it throws too.
BrightnessFallbacks == {Hundredths(h) : h \in {40, 50, 59}}

\* analyzeSkinTone with a failed command.
SkinToneFallback == Hundredths(10)

FrameInit ==
    /\ QueueInit
    /\ NoMoreCalls
    /\ progressRun = NoCall
    /\ stream = NoCall
    /\ scan \in {NewScan(d, e) @@ [failedFrames |-> {}] :
                    d \in Durations, e \in BOOLEAN}

\* Both commands of the frame ran: the values they yield are pushed.
Frame_Analyzed(brightness, skinTone) ==
    Scan_AnalyzeFrame(brightness, skinTone)

\* Both commands of the frame failed: the stand-in values are pushed.
Frame_AnalysisFailed(brightness) ==
    /\ scan.pc = "analyze"
    /\ scan' = FrameAnalyzed(
                  [scan EXCEPT !.failedFrames = @ \cup {scan.i + 1}],
                  brightness, SkinToneFallback)
    /\ UNCHANGED <<queueVars, progressRun, stream, moreCalls>>

FrameNext ==
    \/ Scan_Start
    \/ Scan_Probe
    \/ \E written \in SUBSET {(i - 1) * FRAME_INTERVAL : i \in 1..MaxFrames} :
          Scan_Screenshots(written)
    \/ \E b \in BrightnessSamples, s \in SkinToneSamples : Frame_Analyzed(b, s)
    \/ \E b \in BrightnessFallbacks : Frame_AnalysisFailed(b)
    \/ Scan_Catch

\* One call of processSensitivityCheck in which the analysis commands of
\* any frame may fail.
FrameSpec == FrameInit /\ [][FrameNext]_vars

\* The analyses of the frames whose commands did not fail.
SucceededAnalyses(sc) ==
    LET Pick[k \in 0..Len(sc.frameAnalyses)] ==
            IF k = 0 THEN <<>>
            ELSE IF k \in sc.failedFrames THEN Pick[k - 1]
            ELSE Append(Pick[k - 1], sc.frameAnalyses[k])
    IN  Pick[Len(sc.frameAnalyses)]

\* C32: a call that ran through the frame loop visited every extracted
\* frame and returns the classification computed over the frames whose
\* analysis did not fail; a frame whose analysis failed is left out.
C32_FrameRecovery ==
    ScanCompleted =>
        /\ scan.i = Len(scan.framePaths)
        /\ scan.result = ScanResult(SucceededAnalyses(scan))

(***************************************************************************)
(* transcodeVideo: the scale filter                                        *)
(***************************************************************************)

\* Largest width and height of the exhaustively enumerated source sizes.
MaxSize == 9

\* Math.round(p / q) for p >= 0, q > 0: halves round up.
Round(p, q) == (2 * p + q) \div (2 * q)

\* `${w}x${h}`, the form of VIDEO_MAX_RESOLUTION.
Resolution(w, h) == Decimal(w) \o <<"x">> \o Decimal(h)

\* VIDEO_MAX_RESOLUTION.split('x').map(Number) for a value of that form.
SplitResolution(str) ==
    LET x == CHOOSE k \in 1..Len(str) : str[k] = "x" IN
        <<ParseInt(SubSeq(str, 1, x - 1)),
          ParseInt(SubSeq(str, x + 1, Len(str)))>>

\* Values of VIDEO_MAX_RESOLUTION: the default and small ones, even and odd.
Resolutions ==
    {Resolution(1920, 1080), Resolution(6, 4), Resolution(7, 5),
     Resolution(4, 6)}

\* Sizes ffprobe reports for the video stream; 0 stands for a missing value.
SourceSizes ==
    {<<w, h>> : w \in 0..MaxSize, h \in 0..MaxSize}
    \cup {<<1280, 720>>, <<1920, 1080>>, <<1921, 1080>>, <<3840, 2160>>,
          <<1080, 1920>>, <<2560, 1080>>, <<4096, 2160>>, <<4000, 1>>,
          <<2, 4000>>, <<1920, 1081>>}

NoFilter == [applied |-> FALSE, width |-> 0, height |-> 0]

\* n % 2 === 0 ? n : n - 1
toEven(n) == IF n % 2 = 0 THEN n ELSE n - 1

\* The scale filter transcodeVideo builds for a stream of width x height
\* under the maximum maxWidth x maxHeight.
scaleFilter(width, height, maxWidth, maxHeight) ==
    IF width > maxWidth \/ height > maxHeight
    THEN LET newHeight == Round(maxWidth * height, width) IN
         IF newHeight > maxHeight
         THEN [applied |-> TRUE,
               width |-> toEven(Round(maxHeight * width, height)),
               height |-> toEven(maxHeight)]
         ELSE [applied |-> TRUE,
               width |-> toEven(maxWidth),
               height |-> toEven(newHeight)]
    ELSE NoFilter

\* transcodeVideo has been called; ffprobe will report size and the
\* configuration holds resolution.
NewTranscode(size, resolution) ==
    [pc |-> "probe", streamWidth |-> size[1], streamHeight |-> size[2],
     resolution |-> resolution, width |-> 0, height |-> 0,
     maxWidth |-> 0, maxHeight |-> 0, filter |-> NoFilter]

TranscodeInit ==
    /\ QueueInit
    /\ progressRun = NoCall
    /\ scan = NoCall
    /\ stream = NoCall
    /\ notify = NoCall
    /\ upload = NoCall
    /\ login = NoCall
    /\ sockets = NoCall
    /\ readyEmit = NoCall
    /\ queueStatus = NoCall
    /\ transcode \in {NewTranscode(sz, r) : sz \in SourceSizes, r \in Resolutions}

TranscodeFrame ==
    <<queueVars, progressRun, scan, stream, notify, upload, login,
      sockets, readyEmit, queueStatus>>

\* ffprobe calls back: width and height default to 1920 and 1080 when the
\* stream has none, and the maximum is parsed.
Transcode_Probe ==
    /\ transcode.pc = "probe"
    /\ LET max == SplitResolution(transcode.resolution) IN
          transcode' =
             [transcode EXCEPT
                 !.pc = "scale",
                 !.width = IF transcode.streamWidth = 0 THEN 1920
                           ELSE transcode.streamWidth,
                 !.height = IF transcode.streamHeight = 0 THEN 1080
                            ELSE transcode.streamHeight,
                 !.maxWidth = max[1],
                 !.maxHeight = max[2]]
    /\ UNCHANGED TranscodeFrame

\* The scale filter is computed and the command is built.
Transcode_Scale ==
    /\ transcode.pc = "scale"
    /\ transcode' =
          [transcode EXCEPT
              !.pc = "command",
              !.filter = scaleFilter(transcode.width, transcode.height,
                                     transcode.maxWidth, transcode.maxHeight)]
    /\ UNCHANGED TranscodeFrame

TranscodeNext ==
    \/ Transcode_Probe
    \/ Transcode_Scale

\* One transcodeVideo call up to the built command, for every source size
\* and configured maximum considered.
TranscodeSpec == TranscodeInit /\ [][TranscodeNext]_vars

\* |a - b|
Dist(a, b) == IF a >= b THEN a - b ELSE b - a

\* C33: a source within the maximum gets no scale filter; any other source
\* gets one whose width and height are positive even integers within the
\* maximum, with width/height equal to the source's ratio up to the
\* rounding of one dimension (the other being kept, the rounded one less
\* than 2 away from its exact value).
C33_OutputResolution ==
    transcode.pc = "command" =>
        LET w == transcode.width
            h == transcode.height
            f == transcode.filter
        IN  IF w <= transcode.maxWidth /\ h <= transcode.maxHeight
            THEN ~f.applied
            ELSE /\ f.applied
                 /\ f.width > 0 /\ f.height > 0
                 /\ f.width % 2 = 0 /\ f.height % 2 = 0
                 /\ f.width <= transcode.maxWidth
                 /\ f.height <= transcode.maxHeight
                 /\ \/ Dist(f.height * w, f.width * h) < 2 * w
                    \/ Dist(f.width * h, f.height * w) < 2 * h

(***************************************************************************)
(* The /progress namespace: connections and rooms                          *)
(***************************************************************************)

Conns == {"c1", "c2"}

\* Ids clients ask to join and jobs emit for.
RoomVideos == {1, 2}

\* decoded.userId of a token: tokens are signed for one user per tenant.
TokenUser(tenantId) == <<"user-of", tenantId>>

NoJoin == [pc |-> "idle", videoId |-> Null, outcome |-> "none"]

\* A socket before its handshake.
NewSocket ==
    [state |-> "new", tenantId |-> "none", rooms |-> {}, received |-> {},
     join |-> NoJoin]

\* No record under the id.
NoVideo == [state |-> "none", tenantId |-> "none"]

SocketInit ==
    /\ QueueInit
    /\ progressRun = NoCall
    /\ scan = NoCall
    /\ stream = NoCall
    /\ notify = NoCall
    /\ upload = NoCall
    /\ login = NoCall
    /\ transcode = NoCall
    /\ readyEmit = NoCall
    /\ queueStatus = NoCall
    /\ sockets = [conns |-> [c \in Conns |-> NewSocket],
                  videos |-> [v \in RoomVideos |-> NoVideo]]

SocketFrame ==
    <<queueVars, progressRun, scan, stream, notify, upload, login,
      transcode, readyEmit, queueStatus>>

\* authenticateSocket and the connection handler: the token is
\* handshake.auth.token, else handshake.query.token; without one, or with
\* one jwt.verify rejects, the connection is refused; otherwise the socket
\* carries the decoded tenantId and joins the room of its user.  The
\* sockets connect in the order of their names.
Socket_Connect(c, auth, query) ==
    /\ sockets.conns[c].state = "new"
    /\ c = "c2" => sockets.conns["c1"].state # "new"
    /\ LET decoded == verifyToken(auth, query) IN
          sockets' =
             IF decoded.ok
             THEN [sockets EXCEPT
                      !.conns[c].state = "connected",
                      !.conns[c].tenantId = decoded.tenantId,
                      !.conns[c].rooms = {UserRoom(TokenUser(decoded.tenantId))}]
             ELSE [sockets EXCEPT !.conns[c].state = "refused"]
    /\ UNCHANGED SocketFrame

\* A video of the tenant is uploaded under the next fresh id.
Socket_VideoCreated(v, tenantId) ==
    /\ sockets.videos[v].state = "none"
    /\ \A w \in RoomVideos : w < v => sockets.videos[w].state # "none"
    /\ sockets' = [sockets EXCEPT
                      !.videos[v] = [state |-> "stored", tenantId |-> tenantId]]
    /\ UNCHANGED SocketFrame

\* The video is deleted.
Socket_VideoDeleted(v) ==
    /\ sockets.videos[v].state = "stored"
    /\ sockets' = [sockets EXCEPT !.videos[v].state = "deleted"]
    /\ UNCHANGED SocketFrame

\* 'join-video-room' arrives: Video.findById is issued.
Socket_JoinVideoRoom(c, v) ==
    /\ sockets.conns[c].state = "connected"
    /\ sockets.conns[c].join.pc = "idle"
    /\ sockets' = [sockets EXCEPT
                      !.conns[c].join =
                          [pc |-> "find", videoId |-> v, outcome |-> "none"]]
    /\ UNCHANGED SocketFrame

SameTenant_Always(videoTenantId, socketTenantId) == TRUE

\* !(video.tenantId !== socket.user.tenantId)
SameTenant(videoTenantId, socketTenantId) == videoTenantId = socketTenantId

\* Video.findById resolves: without a record, or with a record of another
\* tenant, the socket gets an 'error' event (outcome not-found or denied);
\* otherwise it joins the room of the video and gets 'video-status'
\* (outcome joined).  received holds the events sent to rooms only.
Socket_JoinFound(c) ==
    /\ sockets.conns[c].join.pc = "find"
    /\ LET v == sockets.conns[c].join.videoId
           video == sockets.videos[v]
       IN  sockets' =
             IF video.state # "stored"
             THEN [sockets EXCEPT
                      !.conns[c].join = [NoJoin EXCEPT !.videoId = v,
                                                       !.outcome = "not-found"]]
             ELSE IF ~SameTenant(video.tenantId, sockets.conns[c].tenantId)
             THEN [sockets EXCEPT
                      !.conns[c].join = [NoJoin EXCEPT !.videoId = v,
                                                       !.outcome = "denied"]]
             ELSE [sockets EXCEPT
                      !.conns[c].join = [NoJoin EXCEPT !.videoId = v,
                                                       !.outcome = "joined"],
                      !.conns[c].rooms =
                          IF sockets.conns[c].state = "connected"
                          THEN @ \cup {VideoRoom(v)} ELSE @]
    /\ UNCHANGED SocketFrame

\* 'leave-video-room'.
Socket_LeaveVideoRoom(c, v) ==
    /\ sockets.conns[c].state = "connected"
    /\ VideoRoom(v) \in sockets.conns[c].rooms
    /\ sockets' = [sockets EXCEPT !.conns[c].rooms = @ \ {VideoRoom(v)}]
    /\ UNCHANGED SocketFrame

\* The client disconnects: the socket leaves all its rooms.
Socket_Disconnect(c) ==
    /\ sockets.conns[c].state = "connected"
    /\ sockets' = [sockets EXCEPT !.conns[c].state = "closed",
                                  !.conns[c].rooms = {}]
    /\ UNCHANGED SocketFrame

\* progressNamespace.to(room).emit(event, ...): every socket in the room
\* gets the event.
Deliver(conns, msg) ==
    [c \in Conns |->
        IF msg.room \in conns[c].rooms
        THEN [conns[c] EXCEPT !.received = @ \cup {<<msg.event, msg.videoId>>}]
        ELSE conns[c]]

\* A job of v emits a status update to the room of the video.
Socket_EmitStatusUpdate(v) ==
    /\ sockets.videos[v].state # "none"
    /\ sockets' = [sockets EXCEPT
                      !.conns = Deliver(sockets.conns, emitStatusUpdate(v, 0))]
    /\ UNCHANGED SocketFrame

\* A job of v emits processing progress to the room of the video.
Socket_EmitProgress(v) ==
    /\ sockets.videos[v].state # "none"
    /\ sockets' = [sockets EXCEPT
                      !.conns = Deliver(sockets.conns, emitProgress(v, 0))]
    /\ UNCHANGED SocketFrame

SocketNext ==
    \/ \E c \in Conns, auth, query \in Tokens : Socket_Connect(c, auth, query)
    \/ \E v \in RoomVideos, t \in Tenants : Socket_VideoCreated(v, t)
    \/ \E v \in RoomVideos : Socket_VideoDeleted(v)
    \/ \E c \in Conns, v \in RoomVideos : Socket_JoinVideoRoom(c, v)
    \/ \E c \in Conns : Socket_JoinFound(c)
    \/ \E c \in Conns, v \in RoomVideos : Socket_LeaveVideoRoom(c, v)
    \/ \E c \in Conns : Socket_Disconnect(c)
    \/ \E v \in RoomVideos : Socket_EmitStatusUpdate(v)
    \/ \E v \in RoomVideos : Socket_EmitProgress(v)

\* Clients connecting to the namespace and joining and leaving video rooms
\* while videos are created and deleted and jobs emit their events.
SocketSpec == SocketInit /\ [][SocketNext]_vars

\* C34: a socket is in the room video:M, or holds a status-update or
\* processing-progress event of M, only if a record M was created whose
\* tenantId is the tenantId of the socket's credential; a join request
\* ends with the socket joined only when the record has that tenantId, and
\* with the access-denied error only when it has another.
C34_TenantCheckedJoin ==
    \A c \in Conns, v \in RoomVideos :
        LET s == sockets.conns[c] IN
            /\ (\/ VideoRoom(v) \in s.rooms
                \/ <<"status-update", v>> \in s.received
                \/ <<"processing-progress", v>> \in s.received) =>
                  /\ sockets.videos[v].state # "none"
                  /\ sockets.videos[v].tenantId = s.tenantId
            /\ (s.join.videoId = v /\ s.join.outcome = "joined") =>
                  sockets.videos[v].tenantId = s.tenantId
            /\ (s.join.videoId = v /\ s.join.outcome = "denied") =>
                  sockets.videos[v].tenantId # s.tenantId
            /\ s.state \in {"new", "refused"} => s.rooms = {} /\ s.received = {}

\* A socket of tenant t1 was refused the room of a video of tenant t2 that
\* has emitted its events to a socket of tenant t2 in the room.
C34_Witness ==
    \E c, d \in Conns, v \in RoomVideos :
        /\ sockets.conns[c].tenantId = "t1"
        /\ sockets.conns[c].join = [NoJoin EXCEPT !.videoId = v,
                                                  !.outcome = "denied"]
        /\ sockets.videos[v].tenantId = "t2"
        /\ sockets.conns[d].tenantId = "t2"
        /\ VideoRoom(v) \in sockets.conns[d].rooms
        /\ <<"status-update", v>> \in sockets.conns[d].received
        /\ <<"processing-progress", v>> \in sockets.conns[d].received
        /\ <<"status-update", v>> \notin sockets.conns[c].received

(***************************************************************************)
(* Frame sampling                                                          *)
(***************************************************************************)

\* The multiples of 5 that are strictly below d.
SampleTimes(d) == {t \in 0..d : t % 5 = 0 /\ t < d}

\* C35: for a file of duration d the frames the scan works on are taken at
\* timestamps 0, 5, 10, ... strictly below d, in ascending order; when the
\* engine wrote every frame they are exactly those timestamps, ceil(d / 5)
\* of them; for d = 0 no frame is requested and none is analysed.
C35_FrameSampling ==
    /\ scan.pc \in {"screenshots", "analyze"} => scan.duration > 0
    /\ scan.pc \in {"analyze", "returned"} =>
          /\ \A k \in DOMAIN scan.framePaths :
                /\ scan.framePaths[k] \in SampleTimes(scan.duration)
                /\ k > 1 => scan.framePaths[k - 1] < scan.framePaths[k]
          /\ scan.duration = 0 => scan.framePaths = <<>>
    /\ (scan.pc = "analyze" /\ scan.frameFiles = SampleTimes(scan.duration)) =>
          /\ Range(scan.framePaths) = SampleTimes(scan.duration)
          /\ Len(scan.framePaths) = (scan.duration + 4) \div 5

\* A file of 6 seconds is being analysed on the frames of seconds 0 and 5.
C35_Witness ==
    /\ scan.pc = "analyze"
    /\ scan.duration = 6
    /\ scan.framePaths = <<0, 5>>

(***************************************************************************)
(* The delayed 'ready' emit of processNext                                 *)
(*                                                                         *)
(* After a successful processVideo, processNext sets a 1000 ms timer that  *)
(* emits 'ready'.  It is set in the turn in which processVideo set the     *)
(* promotion timer, so it is pending from the moment promo[v] leaves       *)
(* "none" until it has fired.                                              *)
(***************************************************************************)

NoEmit == [pc |-> "none", stored |-> "none"]

ReadyInit ==
    /\ QueueInit
    /\ progressRun = NoCall
    /\ scan = NoCall
    /\ stream = NoCall
    /\ notify = NoCall
    /\ upload = NoCall
    /\ login = NoCall
    /\ transcode = NoCall
    /\ sockets = NoCall
    /\ queueStatus = NoCall
    /\ readyEmit = [v \in VideoIds |-> NoEmit]

\* The timer fires: emitStatusUpdate(io, videoId, 'ready', finalData) and
\* emitProgressToUser(..., 'ready', ...), without a look at the record.
\* stored notes the record's persisted status at that moment.
Emit_Ready(v) ==
    /\ promo[v] # "none"
    /\ readyEmit[v].pc = "none"
    /\ readyEmit' = [readyEmit EXCEPT ![v] =
                        [pc |-> "emitted",
                         stored |-> IF store[v].exists THEN store[v].status
                                    ELSE "none"]]
    /\ UNCHANGED <<queueVars, progressRun, scan, stream, notify, upload, login,
                   transcode, sockets, queueStatus>>

ReadyNext ==
    \/ Next
    \/ \E v \in VideoIds : Emit_Ready(v)

\* As Spec, with the delayed 'ready' emits of the queue.
ReadySpec == ReadyInit /\ [][ReadyNext]_vars

\* C36: the 'ready' event of a video is emitted only when the record's
\* persisted status is ready at that moment.
C36_ReadyReflectsStore ==
    \A v \in VideoIds :
        readyEmit[v].pc = "emitted" => readyEmit[v].stored = "ready"

(***************************************************************************)
(* getQueueStatus                                                          *)
(***************************************************************************)

StatusInit ==
    /\ QueueInit
    /\ progressRun = NoCall
    /\ scan = NoCall
    /\ stream = NoCall
    /\ notify = NoCall
    /\ upload = NoCall
    /\ login = NoCall
    /\ transcode = NoCall
    /\ sockets = NoCall
    /\ readyEmit = NoCall
    /\ queueStatus = NoCall

\* getQueueStatus(): { queueLength, isProcessing, currentVideo }.
getQueueStatus ==
    [pc |-> "returned",
     queueLength |-> Len(processingQueue),
     isProcessing |-> isProcessing,
     currentVideo |-> currentVideoId]

\* A caller asks for the queue status.
GetQueueStatus ==
    /\ queueStatus' = getQueueStatus
    /\ UNCHANGED <<queueVars, progressRun, scan, stream, notify, upload, login,
                   transcode, sockets, readyEmit>>

StatusNext ==
    \/ Next
    \/ GetQueueStatus

\* As Spec, with getQueueStatus called at any moment.
StatusSpec == StatusInit /\ [][StatusNext]_vars

\* C37: the busy flag is set exactly when the current-job id is; the current
\* id is the id of the one job that was taken from the queue and has not
\* ended, set to the head of the queue (after the push, when an upload
\* finds the queue idle) in the step that takes it; and a
\* getQueueStatus call returns the queue length, the busy flag and the
\* current id as they are, leaving all three unchanged.
C37_QueueBookkeeping ==
    /\ [](/\ isProcessing <=> currentVideoId # Null
          /\ \A v \in VideoIds :
                job[v].pc \in RunningPcs <=> currentVideoId = v)
    /\ [][/\ Len(processingQueue') < Len(processingQueue) =>
                /\ processingQueue' = Tail(processingQueue)
                /\ currentVideoId' = Head(processingQueue)
                /\ isProcessing'
          /\ (currentVideoId' # currentVideoId /\ currentVideoId' # Null) =>
                /\ currentVideoId = Null
                /\ \E q \in {processingQueue} \cup
                            {Append(processingQueue, v) : v \in VideoIds} :
                      /\ q # <<>>
                      /\ Head(q) = currentVideoId'
                      /\ processingQueue' = Tail(q)
          /\ queueStatus' # queueStatus =>
                /\ queueStatus'.queueLength = Len(processingQueue)
                /\ queueStatus'.isProcessing = isProcessing
                /\ queueStatus'.currentVideo = currentVideoId
                /\ UNCHANGED <<processingQueue, isProcessing, currentVideoId>>]_vars

\* getQueueStatus returned while a job was running with another one queued.
C37_Witness ==
    /\ queueStatus.pc = "returned"
    /\ queueStatus.queueLength = 1
    /\ queueStatus.isProcessing
    /\ queueStatus.currentVideo = 1
    /\ currentVideoId = 2
    /\ job[2].pc \in RunningPcs

(***************************************************************************)
(* The processed record                                                    *)
(***************************************************************************)

\* C38: under the upload, the queue, the pipeline and the delayed promotion,
\* a record whose status is safe, flagged or ready has processedFilePath and
\* thumbnailPath set and processingProgress = 100, and a record whose status
\* is uploaded or processing has processedFilePath unset and
\* processingProgress = 0.
C38_ProcessedRecord ==
    \A v \in VideoIds :
        store[v].exists =>
            /\ store[v].status \in {"safe", "flagged", "ready"} =>
                   /\ store[v].processedFilePath
                   /\ store[v].thumbnailPath
                   /\ store[v].processingProgress = 100
            /\ store[v].status \in {"uploaded", "processing"} =>
                   /\ ~store[v].processedFilePath
                   /\ store[v].processingProgress = 0

\* One record promoted to ready, one finalized and not yet promoted, and
\* one being processed whose derivative is already on disk.
C38_Witness ==
    /\ store[1].status = "ready"
    /\ store[2].status \in {"safe", "flagged"}
    /\ promo[2] = "scheduled"
    /\ store[3].status = "processing"
    /\ files[3].processed

(***************************************************************************)
(* The scan inside the pipeline                                            *)
(***************************************************************************)

\* processVideo for record 1 has saved the duration and awaits
\* processSensitivityCheck, which is about to start.
ScanFinalizeInit ==
    /\ store = [v \in VideoIds |->
                   IF v = 1 THEN [NewRecord EXCEPT !.status = "processing"]
                   ELSE NoRecord]
    /\ files = [v \in VideoIds |->
                   IF v = 1
                   THEN [original |-> TRUE, processed |-> TRUE, thumbnail |-> TRUE]
                   ELSE NoFiles]
    /\ processingQueue = <<>>
    /\ isProcessing = TRUE
    /\ currentVideoId = 1
    /\ immediates = 0
    /\ job = [v \in VideoIds |->
                 IF v = 1 THEN [NewJob EXCEPT !.pc = "pv_sensitivity"] ELSE NewJob]
    /\ promo = [v \in VideoIds |-> "none"]
    /\ del = [v \in VideoIds |-> "none"]
    /\ nextVideoId = 2
    /\ updates = 0
    /\ started = <<1>>
    /\ NoMoreCalls
    /\ progressRun = NoCall
    /\ scan \in {NewScan(d, e) : d \in Durations, e \in BOOLEAN}
    /\ stream = NoCall

\* const sensitivityResult = await processSensitivityCheck(...): the result
\* of the scan is what the finalize fields are set from.
PV_SensitivityReturned(v) ==
    /\ job[v].pc = "pv_sensitivity"
    /\ scan.pc = "returned"
    /\ job' = [job EXCEPT ![v].pc = "pv_save3",
                          ![v].flagged = scan.result.flagged,
                          ![v].level = scan.result.level]
    /\ UNCHANGED <<store, files>>
    /\ UNCHANGED PipelineFrame

ScanFinalizeNext ==
    \/ ScanNext
    \/ PV_SensitivityReturned(1)
    \/ PV_SaveFinal(1)

\* One scan and the finalize save that uses its result.
ScanFinalizeSpec == ScanFinalizeInit /\ [][ScanFinalizeNext]_vars

\* C39: a result returned by the scorer that is flagged has level medium or
\* high, and one with level high is flagged; and a record the pipeline has
\* finalized as flagged does not have sensitivityLevel low, and one
\* finalized as safe does not have sensitivityLevel high.
C39_FlagLevelConsistency ==
    /\ scan.pc = "returned" =>
           /\ scan.result.flagged => scan.result.level \in {"medium", "high"}
           /\ scan.result.level = "high" => scan.result.flagged
    /\ \A v \in VideoIds :
           store[v].exists =>
               /\ store[v].status = "flagged" => store[v].sensitivityLevel # "low"
               /\ store[v].status = "safe" => store[v].sensitivityLevel # "high"

\* A scan scored between the two thresholds' neighbours: flagged with level
\* medium, and the record finalized from it.
C39_Witness ==
    /\ scan.pc = "returned"
    /\ scan.exit = "normal"
    /\ scan.result.flagged
    /\ scan.result.level = "medium"
    /\ store[1].status = "flagged"
    /\ store[1].sensitivityLevel = "medium"
    /\ store[1].processingProgress = 100

====
